---- MODULE Spec2Model ----
(***************************************************************************)
(* State-machine model of the LEELOO brain (leeloo_brain.py), its LED      *)
(* manager (leeloo_led.py) and the tap callback task (leeloo_tap.py).      *)
(*                                                                         *)
(* The program is one asyncio event loop.  Code between two suspension     *)
(* points runs atomically, so every action below is one such stretch of a  *)
(* coroutine.  The display tick is the only code run on a worker thread.   *)
(***************************************************************************)
EXTENDS Integers, Sequences, FiniteSets, TLC

(***************************************************************************)
(* Bounds of the model.                                                    *)
(***************************************************************************)
MaxTasks == 2
MaxEvents == 2
MaxOrphans == 1
MaxTrace == 7
\* Double and triple taps dispatched to the brain in one behaviour.
MaxDispatch == 2
\* Physical taps on the case in one behaviour.
MaxPhys == 3
\* The clock of the tap detector stops here (ticks of 10 ms).
MaxTime == 500
\* time.time() when the first tap arrives (ticks of 10 ms since the epoch).
Epoch == 100
\* Acceleration magnitude of the device at rest (tenths of m/s^2).
RestMagnitude == 98

(***************************************************************************)
(* Enumerations of the source.                                             *)
(***************************************************************************)
UIState == {"NORMAL", "EXPANDING", "EXPANDED", "COLLAPSING", "LISTENING", "PROCESSING"}

FrameType == {"WEATHER", "TIME", "MESSAGES", "ALBUM"}

TaskIds == 1..MaxTasks

\* Positions of an expand_frame coroutine.  "free": no such task (never
\* created, or done).  "created": the task exists but its first step has not
\* run.  "wait_other": suspended in "await self._expand_task" on another
\* task.  "resume": that await is about to raise CancelledError.  "expand",
\* "typewriter", "hold", "collapse": suspended inside the try block.
InFlightPcs == {"expand", "typewriter", "hold", "collapse"}

TaskPcs == {"free", "created", "wait_other", "resume"} \cup InFlightPcs

\* _run_animation wrappers of the LED manager, by animation name.
WrapNames == {"processing", "error", "nudge", "message_received", "music_received"}

\* The colour each transient animation writes (leeloo_led.py 190-281).
AnimationColor(name) ==
    CASE name = "ack" -> "GREEN"
      [] name = "listening" -> "GREEN"
      [] name = "processing" -> "GREEN"
      [] name = "message_received" -> "PURPLE"
      [] name = "music_received" -> "GREEN"
      [] name = "nudge" -> "CYAN"
      [] name = "error" -> "RED"
      [] OTHER -> "OFF"

\* Intent actions _execute_intent distinguishes; "OTHER" is any action string
\* the classifier returns that no branch matches.
IntentActions ==
    {"WEATHER_EXPAND", "ALBUM_INFO", "MESSAGE_SEND", "MESSAGE_READOUT", "NUDGE",
     "SONG_PUSH", "HANG_PROPOSE", "HANG_CONFIRM", "TELEGRAM_SETUP", "TIME_QUERY",
     "UNKNOWN", "UNKNOWN_EMPTY", "OTHER"}

\* The panel each intent expands; "None" when the branch submits no request.
IntentFrame(a) ==
    CASE a = "WEATHER_EXPAND" -> "WEATHER"
      [] a = "ALBUM_INFO" -> "ALBUM"
      [] a = "MESSAGE_SEND" -> "MESSAGES"
      [] a = "MESSAGE_READOUT" -> "MESSAGES"
      [] a = "NUDGE" -> "None"
      [] a = "SONG_PUSH" -> "ALBUM"
      [] a = "HANG_PROPOSE" -> "MESSAGES"
      [] a = "HANG_CONFIRM" -> "MESSAGES"
      [] a = "TELEGRAM_SETUP" -> "MESSAGES"
      [] a = "TIME_QUERY" -> "TIME"
      [] a = "UNKNOWN" -> "WEATHER"
      [] a = "UNKNOWN_EMPTY" -> "None"
      [] OTHER -> "None"

\* Branches of _execute_intent that suspend (network send, search, LED ack)
\* before they create the expand task or return.
IntentAwaits(a) ==
    a \in {"MESSAGE_SEND", "NUDGE", "SONG_PUSH", "HANG_CONFIRM", "TIME_QUERY"}

VARIABLES
    ui_state,               \* LeelooBrain.ui_state
    expanded_frame,         \* LeelooBrain.expanded_frame ("None" or a FrameType)
    message_view_active,    \* LeelooBrain.message_view_active
    expand_task,            \* LeelooBrain._expand_task: a task id, or 0 for None or a
                            \* task that is done (the code only tests "and not done()")
    task,                   \* the expand_frame tasks: id -> [pc, frame, cancel, waits]
    ready,                  \* tasks created and not yet started, in the order the loop
                            \* starts them: expand task ids, 0 for the processing() task
    last_end,               \* how the expand task that ended last ended
    voice_pc,               \* position of the tap callback task (TapManager._pending_task)
    voice_intent,           \* intent being executed while the callback is suspended
    cfg,                    \* which of voice / intent_router / router client exist
    led,                    \* LEDManager fields
    brain_led_ambient,      \* LeelooBrain._led_ambient_state
    spotify_playing,        \* what the music source reports on the next refresh
    set_ambient_task,       \* pending ensure_future(led.set_ambient(state)), or "none"
    bg_ack,                 \* led.ack() of a relay event: "none" or "sleeping"
    show_note,              \* _show_note() tasks sleeping before they submit
    music_lookup,           \* pending music lookup of a relay event: "none", "message", "song"
    display_pc,             \* _display_loop: "sleep" or "in_executor"
    fb_last,                \* last writer of the display region: 0 (idle screen) or a task id
    events,                 \* number of external events so far
    flow,                   \* history of the current single-tap flow
    dispatch,               \* _handle_double_tap / _handle_triple_tap: position, tap kind, sends
    tap,                    \* TapManager: its fields, its poll loop, its clock and its input
    ledm,                   \* an LEDManager driven directly through its public operations
    cap,                    \* VoiceManager: _recording and the locals of _stream_audio
    conn,                   \* _ws_connection_loop: its position, retry_delay and session tasks
    faults,                 \* how many exceptions each of the three main loops has caught
    tw,                     \* one request through _typewriter and the hold of expand_frame
    sess,                   \* a cancelled record_and_transcribe call and the tap that cancelled it
    scroll,                 \* one call of _scroll_content: its position, offset and the frames drawn
    rx,                     \* receive_results and the transcript of one record_and_transcribe call
    hist                    \* the stored messages, the clock and the latest intent context

vars == <<ui_state, expanded_frame, message_view_active, expand_task, task, ready,
          last_end, voice_pc, voice_intent, cfg, led, brain_led_ambient, spotify_playing,
          set_ambient_task, bg_ack, show_note, music_lookup, display_pc, fb_last,
          events, flow, dispatch, tap, ledm, cap, conn, faults, tw, sess,
          scroll, rx,
          hist>>

(***************************************************************************)
(* LEDManager (leeloo_led.py).  led is a record:                           *)
(*   ambient_state      _ambient_state ("idle", "playing" or "none")       *)
(*   ambient_task       _ambient_task refers to a breathe task not done    *)
(*   orphans            breathe tasks alive that _ambient_task lost        *)
(*   current_animation  _current_animation ("none" or a name)              *)
(*   animation_task     name of the animation whose _animation_task is     *)
(*                      not done, or "none"                                *)
(*   wrap               position of each _run_animation coroutine          *)
(***************************************************************************)
Min(a, b) == IF a < b THEN a ELSE b

\* _cancel_ambient: cancel the referenced breathe task and drop the reference.
CancelAmbient(l) == [l EXCEPT !.ambient_task = FALSE]

\* _start_ambient_task: a new breathe task replaces the reference; a breathe
\* task that was still referenced keeps running unreferenced.
StartAmbient(l) ==
    [l EXCEPT !.orphans = IF l.ambient_task THEN Min(l.orphans + 1, MaxOrphans) ELSE l.orphans,
              !.ambient_task = TRUE]

ResumeAmbient(l) == IF l.ambient_state # "none" THEN StartAmbient(l) ELSE l

\* _run_animation from the wake-up of "await self._animation_task" to its end.
RunAnimationEnd(l, name) ==
    LET l1 == IF l.current_animation = name
              THEN [l EXCEPT !.current_animation = "none"]
              ELSE l
    IN  [ResumeAmbient(l1) EXCEPT !.wrap[name] = "none"]

\* _cancel_current: cancel the referenced animation task and await it.  The
\* _run_animation coroutine that awaits the same task registered first, so
\* it is woken first and its except/finally clauses (lines 114-122) run
\* before the caller goes on to line 103.  The error() coroutine is awaited
\* by the voice flow, which still has to resume ("ended").
CancelCurrent(l) ==
    IF l.animation_task # "none"
    THEN LET n == l.animation_task
             l1 == RunAnimationEnd([l EXCEPT !.animation_task = "none"], n)
         IN  [l1 EXCEPT !.current_animation = "none",
                        !.wrap[n] = IF n = "error" THEN "ended" ELSE "none"]
    ELSE [l EXCEPT !.current_animation = "none"]

\* ack(), up to its sleep.
AckBegin(l) == CancelCurrent(CancelAmbient(l))

\* ack(), after its sleep.
AckEnd(l) == ResumeAmbient(l)

\* listening()
Listening(l) ==
    [CancelCurrent(CancelAmbient(l)) EXCEPT !.current_animation = "listening"]

\* off()
Off(l) == ResumeAmbient(CancelCurrent(l))

\* _run_animation up to "await self._animation_task".
RunAnimationBegin(l, name) ==
    LET l1 == CancelCurrent(CancelAmbient(l))
    IN  [l1 EXCEPT !.current_animation = name,
                   !.animation_task = name,
                   !.wrap[name] = "waiting"]

\* Mutant of SetAmbientInPlace: set_ambient always cancels and restarts.
SetAmbientNeverInPlace(l, state) == FALSE

\* set_ambient (167-171): the ambient task is running and the new state is
\* not None, so only the state is updated.
SetAmbientInPlace(l, state) == state # "none" /\ l.ambient_task

\* off_all()
OffAll(l) == CancelCurrent(CancelAmbient([l EXCEPT !.ambient_state = "none"]))

\* What set_ambient does besides updating the fields (178-186): cancels the
\* tasks, writes OFF, starts a breathe task.
SetAmbientFx(l, state) ==
    IF SetAmbientInPlace(l, state)
    THEN [cancelled |-> FALSE, off |-> FALSE, started |-> FALSE]
    ELSE [cancelled |-> TRUE, off |-> TRUE, started |-> state # "none"]

\* set_ambient(state) for state "idle" or "playing".
SetAmbient(l, state) ==
    IF SetAmbientInPlace(l, state)
    THEN [l EXCEPT !.ambient_state = state]
    ELSE StartAmbient([CancelAmbient(CancelCurrent(l)) EXCEPT !.ambient_state = state])

(***************************************************************************)
(* Construction: LeelooBrain.__init__ and the start of run().              *)
(***************************************************************************)
\* voice: VoiceManager exists (DEEPGRAM_API_KEY set).  intent_router: the
\* IntentRouter exists (ANTHROPIC_API_KEY set).  client: the router has an
\* Anthropic client (the anthropic package could be imported).
Configs ==
    {[voice |-> TRUE,  intent_router |-> TRUE,  client |-> TRUE],
     [voice |-> TRUE,  intent_router |-> TRUE,  client |-> FALSE],
     [voice |-> TRUE,  intent_router |-> FALSE, client |-> FALSE],
     [voice |-> FALSE, intent_router |-> FALSE, client |-> FALSE]}

FreeTask == [pc |-> "free", frame |-> "None", cancel |-> FALSE, waits |-> 0]

\* No double or triple tap handled yet, nothing sent to the relay client.
NoDispatch == [pc |-> "idle", kind |-> "none", n |-> 0, sent |-> <<>>]

(***************************************************************************)
(* The tap manager (leeloo_tap.py).  Times are in ticks of 10 ms,          *)
(* acceleration in tenths of m/s^2.                                        *)
(***************************************************************************)
DOUBLE_TAP_WINDOW == 50
TRIPLE_TAP_WINDOW == 80
DEBOUNCE_TIME == 50
POLL_INTERVAL == 4
TAP_THRESHOLD == 12
SETTLE_TIME == 50
SETTLE_DRAIN_READS == 5

\* What a tap adds to the magnitude of the reading that catches it: below,
\* at and above the threshold.
Strengths == {11, 12, 20}

\* How long after the previous tap a tap may land.
TapGaps == {10, 30, 40, 80, 100}

\* TapManager.__init__ (45-77), at the first poll after the device came to
\* rest; accel is None without the hardware.
TapInit ==
    {[accel |-> a, now |-> Epoch, loop_pc |-> "poll", loop_wake |-> Epoch, drain_left |-> 0,
      prev_magnitude |-> IF a THEN RestMagnitude ELSE 0,
      tap_count |-> 0, last_tap_time |-> 0,
      pending_task |-> "none", pending_wake |-> 0,
      emitted |-> <<>>, raw |-> 0, last_delta |-> 0,
      spike |-> 0, spike_t |-> 0, phys |-> <<>>] : a \in BOOLEAN}

\* LEDManager.__init__ (48-70): no ambient state, no task, LEDs off.
LedInit ==
    [m |-> [ambient_state |-> "none", ambient_task |-> FALSE, orphans |-> 0,
            current_animation |-> "none", animation_task |-> "none",
            wrap |-> [n \in WrapNames |-> "none"]],
     pix |-> "OFF",
     acks |-> 0,
     fx |-> [cancelled |-> FALSE, off |-> FALSE, started |-> FALSE],
     sets |-> <<>>]

\* Recording and timing parameters (leeloo_voice.py 36-51); durations in ms.
MAX_RECORD_SECONDS == 15
CHUNK_DURATION_MS == 100
SILENCE_THRESHOLD == 30
SILENCE_DURATION == 1500
NO_SPEECH_TIMEOUT == 5000
INITIAL_GRACE_PERIOD == 500

\* Samples of a full read; stands for CHUNK_SAMPLES = 1600 (line 44).
ChunkLen == 2

\* 16-bit sample values: at rest, at the threshold, just above it, speech.
Samples == {-50, 0, 30, 31}

\* What one non-empty read of arecord's output can hold: up to CHUNK_BYTES
\* bytes (StreamReader.read returns what is buffered), as whole samples; the
\* chunk of no sample is a read of a single byte.
Chunks == UNION {[1..n -> Samples] : n \in 0..ChunkLen}

\* _stream_audio 225-228.
max_chunks == (MAX_RECORD_SECONDS * 1000) \div CHUNK_DURATION_MS
grace_chunks == INITIAL_GRACE_PERIOD \div CHUNK_DURATION_MS
silence_chunks_of_grace == INITIAL_GRACE_PERIOD \div CHUNK_DURATION_MS
silence_chunks_needed == SILENCE_DURATION \div CHUNK_DURATION_MS
no_speech_chunks_of_silence == SILENCE_DURATION \div CHUNK_DURATION_MS
no_speech_chunks == NO_SPEECH_TIMEOUT \div CHUNK_DURATION_MS

\* VoiceManager.__init__ (83-90): not recording.  loud_only, full_only and
\* clean are the history of the current capture: every chunk read was above
\* the threshold, every chunk was a full one, and no read or send failed and
\* cancel() was not called.  pattern is the shape of the chunks read so far:
\* "grace" within the grace period, then "loud" while every chunk is above
\* the threshold, "quiet" once chunks below it follow the loud ones and
\* "mixed" for every other stream.  result is what the latest call of
\* record_and_transcribe returned, failure why it could not capture.
CapInit ==
    [api_key |-> TRUE, ws_lib |-> TRUE,
     pc |-> "idle", recording |-> FALSE, total_chunks |-> 0, silence_samples |-> 0,
     has_heard_speech |-> FALSE, stop |-> "none",
     loud_only |-> TRUE, full_only |-> TRUE, clean |-> TRUE, pattern |-> "grace",
     result |-> "none", failure |-> "none"]

\* With or without a Deepgram key (83-89), with or without the websockets
\* library (24-31).
CapInits == {[CapInit EXCEPT !.api_key = k, !.ws_lib = w] : k \in BOOLEAN, w \in BOOLEAN}

\* _ws_connection_loop 2002-2003: the first retry delay and the largest, in s.
base_delay == 5
max_delay == 60

\* Consecutive failures of the relay connection that are followed.
MaxFailures == 6

\* _ws_connection_loop at its first connect (2002-2008).  failures counts the
\* passes of the loop that ended in the backoff since the start or the latest
\* join, waited is the delay of the latest backoff; listen and keepalive are
\* the tasks of 2024-2025, overlap records a session begun while a task of an
\* earlier session was alive.
ConnInit(is_creator) ==
    [pc |-> "connect", retry_delay |-> base_delay, is_creator |-> is_creator,
     failures |-> 0, waited |-> 0, sessions |-> 0,
     listen |-> "none", keepalive |-> "none", overlap |-> FALSE]

\* Exceptions followed in each of the main loops.
MaxFaults == 1

NoFaults == [display |-> 0, tap |-> 0, relay |-> 0]

\* Geometry of the text area (leeloo_brain.py 52, 648-656), in pixels.
SCREEN_HEIGHT == 320
line_height == 22
content_y == 16 + 25
max_y == SCREEN_HEIGHT - 20
visible_height == max_y - content_y

\* Lines of content in a request.
MaxLines == 13

\* Content lines by their text: an empty one or one with characters.
LineTexts == {"", "text"}

Contents == UNION {[1..n -> LineTexts] : n \in 0..MaxLines}

\* The fields of the dictionary _typewriter returns, when it returns None.
NoOverflow == [total_height |-> 0, visible_height |-> 0, content_x |-> 0, content_y |-> 0]

\* No request yet.  content is the request's lines, fb_ok whether the
\* framebuffer can be opened; returned is the kind of value _typewriter
\* returned ("pending" before that, then "None" or "overflow"), overflow the
\* dictionary returned, scrolls the calls of _scroll_content.
TwInit ==
    [pc |-> "idle", content |-> <<>>, fb_ok |-> TRUE, total_content_height |-> 0,
     has_overflow |-> FALSE, idx |-> 0, y_pos |-> 0, typed |-> 0,
     returned |-> "pending", overflow |-> NoOverflow, scrolls |-> 0]

\* The history of a single-tap flow that has just begun.
NoFlow ==
    [recording |-> flow.recording, trace |-> <<>>, acks |-> 0, acks_at_listen |-> -1,
     transcript |-> "none", routed |-> FALSE, submitted |-> 0, net_cmds |-> 0,
     err_cue |-> FALSE, failed |-> FALSE, cancelled |-> FALSE]

\* "playing" if is_playing else "idle" (_sync_ambient_led and run()).
PlaybackState == IF spotify_playing THEN "playing" ELSE "idle"

\* No record_and_transcribe call has been cancelled and no raw tap awaits
\* its resolution.
SessInit == [unwinding |-> FALSE, resolving |-> FALSE, restarted |-> FALSE]

\* _scroll_content has not been called.  drawn is the offset of the frame
\* written last (-1 before the first), frames the number of frames written.
ScrollInit ==
    [pc |-> "idle", fb_ok |-> TRUE, total_height |-> 0, max_scroll |-> 0,
     scroll_offset |-> 0, drawn |-> -1, frames |-> 0]

\* record_and_transcribe before the connection (107-108, 145-146): no
\* fragment collected.  Texts are sequences of characters; seen is the
\* history of the messages receive_results has read, failed tells that the
\* call ended through the handlers of 208-213.
RxInit ==
    [pc |-> "idle", final_transcript |-> <<>>, interim_transcript |-> <<>>,
     seen |-> <<>>, failed |-> FALSE, result |-> <<>>]

\* MessageManager with an empty file (leeloo_messages.py 35-38) at time
\* Now0, in seconds; context is the list of messages in the latest intent
\* context, fresh tells that nothing has happened since it was built.
Now0 == 1000

HistInit == [messages |-> <<>>, now |-> Now0, context |-> <<>>, fresh |-> FALSE]

InitBase(recording) ==
    /\ ui_state = "NORMAL"
    /\ expanded_frame = "None"
    /\ message_view_active = FALSE
    /\ expand_task = 0
    /\ task = [t \in TaskIds |-> FreeTask]
    /\ ready = <<>>
    /\ last_end = "none"
    /\ voice_pc = "idle"
    /\ voice_intent = "none"
    /\ cfg \in Configs
    /\ spotify_playing \in BOOLEAN
    /\ brain_led_ambient = PlaybackState
    /\ led = [ambient_state |-> PlaybackState,
              ambient_task |-> TRUE,
              orphans |-> 0,
              current_animation |-> "none",
              animation_task |-> "none",
              wrap |-> [n \in WrapNames |-> "none"]]
    /\ set_ambient_task = "none"
    /\ bg_ack = "none"
    /\ show_note = 0
    /\ music_lookup = "none"
    /\ display_pc = "sleep"
    /\ fb_last = 0
    /\ events = 0
    /\ flow = [recording |-> recording, trace |-> <<>>, acks |-> 0, acks_at_listen |-> -1,
               transcript |-> "none", routed |-> FALSE, submitted |-> 0, net_cmds |-> 0,
               err_cue |-> FALSE, failed |-> FALSE, cancelled |-> FALSE]
    /\ dispatch = NoDispatch
    /\ tap \in TapInit
    /\ ledm = LedInit
    /\ sess = SessInit
    /\ scroll = ScrollInit
    /\ rx = RxInit
    /\ hist = HistInit

InitWith(recording) ==
    /\ InitBase(recording)
    /\ cap = CapInit
    /\ conn = ConnInit(FALSE)
    /\ faults = NoFaults
    /\ tw = TwInit

Init == InitWith(FALSE)

(***************************************************************************)
(* Helpers shared by the actions.                                          *)
(***************************************************************************)
uiVars == <<ui_state, expanded_frame, message_view_active>>
taskVars == <<expand_task, task, ready, last_end>>
voiceVars == <<voice_pc, voice_intent>>
sideVars == <<tap, ledm, cap, conn, faults, tw, sess, scroll, rx, hist>>
otherVars == <<dispatch, sideVars>>
envVars == <<cfg, spotify_playing, otherVars>>
relayVars == <<show_note, music_lookup>>
ambientVars == <<brain_led_ambient, set_ambient_task>>

\* The flow history is kept only in behaviours that record it.
Rec(f) == IF flow.recording THEN f ELSE flow

\* The history of UIState values of the current single-tap flow.
Tr(new) ==
    IF new # ui_state /\ Len(flow.trace) < MaxTrace
    THEN Append(flow.trace, new)
    ELSE flow.trace

Sat(n) == Min(n + 1, 2)

HasFreeTask == \E t \in TaskIds : task[t].pc = "free"

NewTaskId == CHOOSE t \in TaskIds : task[t].pc = "free" /\ \A u \in 1..(t - 1) : task[u].pc # "free"

\* self._expand_task = asyncio.ensure_future(self.expand_frame(frame, ...)):
\* the task is scheduled and the reference replaced before its first step.
\* rdy is the ready queue the new task is appended to.
SubmitOn(rdy, frame) ==
    /\ HasFreeTask
    /\ task' = [task EXCEPT ![NewTaskId] = [pc |-> "created", frame |-> frame,
                                            cancel |-> FALSE, waits |-> 0]]
    /\ ready' = Append(rdy, NewTaskId)
    /\ expand_task' = NewTaskId
    /\ UNCHANGED last_end

Submit(frame) == SubmitOn(ready, frame)

\* "if self._expand_task and not self._expand_task.done()"
ExpandTaskLive == expand_task # 0

\* Task.cancel() on expand task u.  A task suspended in "await
\* self._expand_task" hands the request to the task it awaits (itself or
\* the other task) and swallows the CancelledError it is woken with.
CancelTask(tk, u) ==
    IF tk[u].pc \in {"resume", "wait_other"} THEN tk ELSE [tk EXCEPT ![u].cancel = TRUE]

\* _update_music() with last_music_fetch = 0 followed by _sync_ambient_led(),
\* on the event-loop thread: a changed playback state is recorded and a
\* set_ambient task is scheduled.
SyncAmbientLed ==
    IF PlaybackState # brain_led_ambient
    THEN /\ brain_led_ambient' = PlaybackState
         /\ set_ambient_task' = PlaybackState
    ELSE UNCHANGED <<brain_led_ambient, set_ambient_task>>

(***************************************************************************)
(* expand_frame (leeloo_brain.py 582-642).                                 *)
(***************************************************************************)
\* Lines 600-611: enter the expansion and suspend in async_expand.
EnterExpanding(t) ==
    /\ ui_state' = "EXPANDING"
    /\ expanded_frame' = task[t].frame
    /\ message_view_active' = (task[t].frame = "MESSAGES")
    /\ task' = [task EXCEPT ![t].pc = "expand", ![t].cancel = FALSE]
    /\ flow' = Rec([flow EXCEPT !.trace = Tr("EXPANDING")])
    /\ UNCHANGED <<expand_task, last_end>>

\* First step of the coroutine (lines 591-611).  Tasks start in the order
\* they were created (the loop's ready queue is FIFO).
ExpandStart(t) ==
    /\ ready # <<>>
    /\ t = Head(ready)
    /\ ready' = Tail(ready)
    /\ IF task[t].cancel
       THEN \* cancelled before its first step: the body never runs, and a
            \* task awaiting this one is woken
            /\ task' = [u \in TaskIds |->
                          IF u = t THEN FreeTask
                          ELSE IF task[u].pc = "wait_other" /\ task[u].waits = t
                               THEN [task[u] EXCEPT !.pc = "resume", !.waits = 0]
                               ELSE task[u]]
            /\ expand_task' = IF expand_task = t THEN 0 ELSE expand_task
            /\ last_end' = "never_ran"
            /\ UNCHANGED <<uiVars, flow>>
       ELSE IF ui_state # "NORMAL" /\ ExpandTaskLive
       THEN IF expand_task = t
            THEN \* lines 594-596 on itself: cancel() leaves a pending request,
                 \* "await self" is answered with an exception at the next step
                 /\ task' = [task EXCEPT ![t].pc = "resume"]
                 /\ UNCHANGED <<uiVars, flow, expand_task, last_end>>
            ELSE /\ task' = [CancelTask(task, expand_task) EXCEPT
                                ![t].pc = "wait_other", ![t].waits = expand_task]
                 /\ UNCHANGED <<uiVars, flow, expand_task, last_end>>
       ELSE EnterExpanding(t)
    /\ UNCHANGED <<voiceVars, envVars, led, ambientVars, bg_ack, relayVars, display_pc,
                   fb_last, events>>

\* Wake-up of "await self._expand_task" (lines 595-598): the CancelledError is
\* swallowed and the coroutine goes on to line 600.
ExpandResume(t) ==
    /\ task[t].pc = "resume"
    /\ EnterExpanding(t)
    /\ UNCHANGED <<ready, voiceVars, envVars, led, ambientVars, bg_ack, relayVars,
                   display_pc, fb_last, events>>

\* Mutant of FinallyUi: the cleanup sits after the try block instead of in a
\* finally clause, so only a run that completes reaches it.
FinallyUiAfterTry(how) ==
    IF how = "completed"
    THEN [ui |-> "NORMAL", frame |-> "None", mva |-> FALSE, fb |-> 0]
    ELSE [ui |-> ui_state, frame |-> expanded_frame, mva |-> message_view_active,
          fb |-> fb_last]

\* The finally block (lines 634-642): what it leaves in the UI fields and on
\* the display for a run that ended by `how`.
FinallyUi(how) ==
    [ui |-> "NORMAL", frame |-> "None", mva |-> FALSE, fb |-> 0]

\* The task ends: CancelledError or an exception leaves the try block, or the
\* collapse returned; the finally block runs.
Teardown(t, how) ==
    /\ ui_state' = FinallyUi(how).ui
    /\ expanded_frame' = FinallyUi(how).frame
    /\ message_view_active' = FinallyUi(how).mva
    /\ fb_last' = FinallyUi(how).fb
    /\ SyncAmbientLed
    /\ task' = [u \in TaskIds |->
                  IF u = t THEN FreeTask
                  ELSE IF task[u].pc = "wait_other" /\ task[u].waits = t
                       THEN [task[u] EXCEPT !.pc = "resume", !.waits = 0]
                       ELSE task[u]]
    /\ expand_task' = IF expand_task = t THEN 0 ELSE expand_task
    /\ last_end' = how
    /\ flow' = Rec([flow EXCEPT !.trace = Tr(FinallyUi(how).ui),
                                !.failed = flow.failed \/ how # "completed"])

\* Mutant of StepUi: line 614 is missing, the state stays Expanding until the
\* collapse.
StepUiNoExpanded(pc) ==
    CASE pc = "expand" -> ui_state
      [] pc = "typewriter" -> ui_state
      [] pc = "hold" -> "COLLAPSING"

\* The UIState the try block sets when the await at position pc returns
\* (lines 614 and 627); the typewriter's return sets none.
StepUi(pc) ==
    CASE pc = "expand" -> "EXPANDED"
      [] pc = "typewriter" -> ui_state
      [] pc = "hold" -> "COLLAPSING"

StepPc(pc) ==
    CASE pc = "expand" -> "typewriter"
      [] pc = "typewriter" -> "hold"
      [] pc = "hold" -> "collapse"

\* An await of the try block returns (lines 611-629); the frames of the step
\* that ended were written to the display region by this task.
ExpandStep(t) ==
    /\ task[t].pc \in InFlightPcs
    /\ ~task[t].cancel
    /\ IF task[t].pc = "collapse"
       THEN Teardown(t, "completed")
       ELSE /\ ui_state' = StepUi(task[t].pc)
            /\ task' = [task EXCEPT ![t].pc = StepPc(task[t].pc)]
            /\ fb_last' = t
            /\ flow' = Rec([flow EXCEPT !.trace = Tr(StepUi(task[t].pc))])
            /\ UNCHANGED <<expanded_frame, message_view_active, expand_task, last_end,
                           ambientVars>>
    /\ UNCHANGED <<ready, voiceVars, envVars, led, bg_ack, relayVars, display_pc, events>>

\* The pending CancelledError is thrown into the suspended coroutine.
ExpandCancelled(t) ==
    /\ task[t].pc \in InFlightPcs
    /\ task[t].cancel
    /\ Teardown(t, "cancelled")
    /\ UNCHANGED <<ready, voiceVars, envVars, led, bg_ack, relayVars, display_pc, events>>

\* An await of the try block raises (framebuffer or animator failure).
ExpandRaises(t) ==
    /\ task[t].pc \in InFlightPcs
    /\ ~task[t].cancel
    /\ Teardown(t, "raised")
    /\ UNCHANGED <<ready, voiceVars, envVars, led, bg_ack, relayVars, display_pc, events>>

(***************************************************************************)
(* Single tap (leeloo_brain.py 813-868) and _voice_interaction (901-943).  *)
(* The tap callback runs inside the detector's pending task                *)
(* (leeloo_tap.py 121-123), so at most one handler is running; voice_pc is *)
(* its position.                                                           *)
(***************************************************************************)
\* Lines 815-819: tap to dismiss.
TapDismiss ==
    /\ voice_pc = "idle"
    /\ ui_state \in {"EXPANDED", "EXPANDING"}
    /\ task' = IF ExpandTaskLive THEN CancelTask(task, expand_task) ELSE task
    /\ UNCHANGED <<uiVars, expand_task, ready, last_end, voiceVars, envVars, led,
                   ambientVars, bg_ack, relayVars, display_pc, fb_last, events, flow>>

\* Lines 824-825: taps are ignored while listening or processing.
TapIgnored ==
    /\ voice_pc = "idle"
    /\ ui_state \in {"LISTENING", "PROCESSING"}
    /\ UNCHANGED vars

\* Lines 827-828: the LED ack, up to the sleep inside led.ack().
TapStartsFlow ==
    /\ voice_pc = "idle"
    /\ events < MaxEvents
    /\ ui_state \notin {"EXPANDED", "EXPANDING", "LISTENING", "PROCESSING"}
    /\ led' = AckBegin(led)
    /\ voice_pc' = "ack"
    /\ flow' = Rec([NoFlow EXCEPT !.acks = 1])
    /\ events' = events + 1
    /\ UNCHANGED <<uiVars, taskVars, voice_intent, envVars, ambientVars, bg_ack,
                   relayVars, display_pc, fb_last>>

\* led.ack() returns; then lines 831-868 up to the next suspension:
\* _voice_interaction to record_and_transcribe (906-913), voice-only mode to
\* record_and_transcribe (836-838), or the demo expansion (856-868).
VoiceAckDone ==
    /\ voice_pc = "ack"
    /\ IF cfg.voice
       THEN /\ ui_state' = "LISTENING"
            /\ led' = Listening(CancelAmbient(AckEnd(led)))
            /\ voice_pc' = IF cfg.intent_router THEN "recording" ELSE "vo_recording"
            /\ flow' = Rec([flow EXCEPT !.trace = Tr("LISTENING"), !.acks_at_listen = flow.acks])
            /\ UNCHANGED taskVars
       ELSE /\ led' = AckEnd(led)
            /\ Submit("WEATHER")
            /\ voice_pc' = "idle"
            /\ flow' = Rec([flow EXCEPT !.submitted = Sat(flow.submitted)])
            /\ UNCHANGED ui_state
    /\ UNCHANGED <<expanded_frame, message_view_active, voice_intent, envVars,
                   ambientVars, bg_ack, relayVars, display_pc, fb_last, events>>

\* Lines 916-919: the branch taken on an empty transcript, up to the
\* suspension inside led.error().
EmptyTranscript ==
    /\ led.wrap["error"] = "none"
    /\ led' = RunAnimationBegin(led, "error")
    /\ voice_pc' = "error"
    /\ flow' = Rec([flow EXCEPT !.transcript = "empty", !.err_cue = TRUE])
    /\ UNCHANGED <<ui_state, taskVars, ambientVars>>

\* Lines 921-936 on a non-empty transcript.  With a router client, route()
\* suspends in run_in_executor.  Without one it returns UNKNOWN "brain
\* offline" at once (leeloo_intent.py 100-101), so led.off() and
\* _execute_intent run before the processing() task has had its first step.
NonEmptyTranscript ==
    /\ led.wrap["processing"] = "none"
    /\ ui_state' = "PROCESSING"
    /\ SyncAmbientLed
    /\ IF cfg.client
       THEN /\ led' = [led EXCEPT !.wrap["processing"] = "created"]
            /\ ready' = Append(ready, 0)
            /\ voice_pc' = "routing"
            /\ flow' = Rec([flow EXCEPT !.trace = Tr("PROCESSING"), !.transcript = "text",
                                    !.routed = TRUE])
            /\ UNCHANGED <<expand_task, task, last_end>>
       ELSE /\ led' = Off([led EXCEPT !.wrap["processing"] = "created"])
            /\ SubmitOn(Append(ready, 0), "WEATHER")
            /\ voice_pc' = "idle"
            /\ flow' = Rec([flow EXCEPT !.trace = Tr("PROCESSING"), !.transcript = "text",
                                    !.routed = TRUE, !.submitted = Sat(flow.submitted)])

\* record_and_transcribe returns in _voice_interaction (line 913).
VoiceRecordDone(empty) ==
    /\ voice_pc = "recording"
    /\ IF empty THEN EmptyTranscript ELSE NonEmptyTranscript
    /\ UNCHANGED <<expanded_frame, message_view_active, voice_intent, envVars, bg_ack,
                   relayVars, display_pc, fb_last, events>>

\* record_and_transcribe returns in voice-only mode (lines 838-852).
VoiceOnlyRecordDone(empty) ==
    /\ voice_pc = "vo_recording"
    /\ led' = Off(led)
    /\ ui_state' = "NORMAL"
    /\ voice_pc' = "idle"
    /\ IF empty
       THEN /\ flow' = Rec([flow EXCEPT !.trace = Tr("NORMAL"), !.transcript = "empty"])
            /\ UNCHANGED taskVars
       ELSE /\ Submit("WEATHER")
            /\ flow' = Rec([flow EXCEPT !.trace = Tr("NORMAL"), !.transcript = "text",
                                    !.submitted = Sat(flow.submitted)])
    /\ UNCHANGED <<expanded_frame, message_view_active, voice_intent, envVars,
                   ambientVars, bg_ack, relayVars, display_pc, fb_last, events>>

\* The end of a branch of _execute_intent (945-1141): the expand task is
\* created and stored, or nothing is submitted, and the handler returns.
ExecuteFinish(a, l) ==
    /\ led' = l
    /\ voice_pc' = "idle"
    /\ voice_intent' = "none"
    /\ IF IntentFrame(a) # "None"
       THEN /\ Submit(IntentFrame(a))
            /\ flow' = Rec([flow EXCEPT !.submitted = Sat(flow.submitted)])
       ELSE UNCHANGED <<taskVars, flow>>

\* Lines 938-943: the exception handler, up to the suspension inside led.error().
VoiceExcept(l) ==
    /\ l.wrap["error"] = "none"
    /\ led' = RunAnimationBegin(l, "error")
    /\ voice_pc' = "error"
    /\ voice_intent' = "none"
    /\ flow' = Rec([flow EXCEPT !.failed = TRUE, !.err_cue = TRUE])
    /\ UNCHANGED taskVars

\* Branches of _execute_intent whose await is conditional (ws connected, a
\* message to send, the current song to push): they may run without suspending.
IntentMaySkipAwait(a) == a \in {"MESSAGE_SEND", "NUDGE", "SONG_PUSH"}

\* route() returns intent a (line 930); led.off() (933); _execute_intent up to
\* its first suspension, its end, or an exception.  The processing() task had
\* its first step while route() was suspended.
VoiceRouteDone(a, suspend, raises) ==
    /\ voice_pc = "routing"
    /\ led.wrap["processing"] # "created"
    /\ LET l0 == Off(led)
           l1 == IF a = "NUDGE" THEN RunAnimationBegin(l0, "nudge") ELSE l0
       IN  IF raises
           THEN \* _build_rain_viz(None) raises when no weather was fetched
                /\ a = "WEATHER_EXPAND"
                /\ ~suspend
                /\ VoiceExcept(l0)
           ELSE IF suspend
           THEN /\ IntentAwaits(a)
                /\ a = "NUDGE" => led.wrap["nudge"] = "none"
                /\ led' = IF a = "HANG_CONFIRM" THEN AckBegin(l1) ELSE l1
                /\ voice_pc' = "executing"
                /\ voice_intent' = a
                /\ flow' = Rec([flow EXCEPT
                              !.acks = IF a = "HANG_CONFIRM" THEN Sat(flow.acks) ELSE flow.acks,
                              !.net_cmds = IF a \in {"MESSAGE_SEND", "NUDGE"}
                                           THEN Sat(flow.net_cmds) ELSE flow.net_cmds])
                /\ UNCHANGED taskVars
           ELSE /\ IntentAwaits(a) => IntentMaySkipAwait(a)
                /\ a = "NUDGE" => led.wrap["nudge"] = "none"
                /\ ExecuteFinish(a, l1)
    /\ UNCHANGED <<uiVars, envVars, ambientVars, bg_ack, relayVars, display_pc, fb_last,
                   events>>

\* The await inside _execute_intent returns and the branch runs to its end.
VoiceExecuteDone ==
    /\ voice_pc = "executing"
    /\ ExecuteFinish(voice_intent, IF voice_intent = "HANG_CONFIRM" THEN AckEnd(led) ELSE led)
    /\ UNCHANGED <<uiVars, envVars, ambientVars, bg_ack, relayVars, display_pc, fb_last,
                   events>>

\* The await inside _execute_intent raises (send or search failure).
VoiceExecuteRaises ==
    /\ voice_pc = "executing"
    /\ voice_intent # "HANG_CONFIRM"
    /\ VoiceExcept(led)
    /\ UNCHANGED <<uiVars, envVars, ambientVars, bg_ack, relayVars, display_pc, fb_last,
                   events>>

\* led.error() returns; lines 918-919 and 943 set NORMAL and the handler ends.
VoiceErrorDone ==
    /\ voice_pc = "error"
    /\ led.wrap["error"] \in {"wake", "ended"}
    /\ led' = IF led.wrap["error"] = "wake"
              THEN RunAnimationEnd(led, "error")
              ELSE [led EXCEPT !.wrap["error"] = "none"]
    /\ ui_state' = "NORMAL"
    /\ voice_pc' = "idle"
    /\ flow' = Rec([flow EXCEPT !.trace = Tr("NORMAL")])
    /\ UNCHANGED <<expanded_frame, message_view_active, taskVars, voice_intent, envVars,
                   ambientVars, bg_ack, relayVars, display_pc, fb_last, events>>

\* A raw tap arrives while the handler of the previous event is still running:
\* _on_tap_detected cancels _pending_task (leeloo_tap.py 139-141), which is the
\* task running the handler.  CancelledError is not an Exception, so the
\* handler of line 938 does not run; inside led.error() the cancellation is
\* taken by the animation task and swallowed by _run_animation (112-115).
\* The handler starts DOUBLE_TAP_WINDOW after its tap and the poll loop looks
\* at no reading for SETTLE_TIME and the drain after a tap (leeloo_tap.py
\* 158-167), so no raw tap arrives during the 100 ms of the handler's ack().
TapCancelsPending ==
    /\ voice_pc \notin {"idle", "ack"}
    /\ IF voice_pc = "error"
       THEN /\ led' = IF led.animation_task = "error"
                      THEN [led EXCEPT !.animation_task = "none", !.wrap["error"] = "wake"]
                      ELSE led
            /\ UNCHANGED <<voiceVars, flow>>
       ELSE /\ voice_pc' = "idle"
            /\ voice_intent' = "none"
            /\ flow' = Rec([flow EXCEPT !.failed = TRUE, !.cancelled = TRUE])
            /\ UNCHANGED led
    /\ UNCHANGED <<uiVars, taskVars, envVars, ambientVars, bg_ack, relayVars, display_pc,
                   fb_last, events>>

(***************************************************************************)
(* LED tasks: the processing() task started with create_task, the          *)
(* animation tasks the _run_animation coroutines await, background ack()   *)
(* and set_ambient() tasks.                                                *)
(***************************************************************************)
\* First step of the processing() task created at leeloo_brain.py 923, in
\* its turn of the loop's ready queue (where it is entry 0).
ProcessingStart ==
    /\ ready # <<>>
    /\ Head(ready) = 0
    /\ ready' = Tail(ready)
    /\ led' = RunAnimationBegin(led, "processing")
    /\ UNCHANGED <<uiVars, expand_task, task, last_end, voiceVars, envVars, ambientVars,
                   bg_ack, relayVars, display_pc, fb_last, events, flow>>

\* The animation coroutine runs to its end (blinks, flashes, the nudge after
\* its duration); the processing breathe loops until it is cancelled.
AnimationDone(name) ==
    /\ name # "processing"
    /\ led.animation_task = name
    /\ led' = [led EXCEPT !.animation_task = "none", !.wrap[name] = "wake"]
    /\ UNCHANGED <<uiVars, taskVars, voiceVars, envVars, ambientVars, bg_ack, relayVars,
                   display_pc, fb_last, events, flow>>

\* _run_animation resumes after its animation task ended or was cancelled.
\* The error() wrapper runs inside the voice flow (VoiceErrorDone).
WrapEnd(name) ==
    /\ name # "error"
    /\ led.wrap[name] = "wake"
    /\ led' = RunAnimationEnd(led, name)
    /\ UNCHANGED <<uiVars, taskVars, voiceVars, envVars, ambientVars, bg_ack, relayVars,
                   display_pc, fb_last, events, flow>>

\* The led.ack() of a relay event wakes from its sleep.
BgAckStep ==
    /\ bg_ack = "sleeping"
    /\ led' = AckEnd(led)
    /\ bg_ack' = "none"
    /\ UNCHANGED <<uiVars, taskVars, voiceVars, envVars, ambientVars, relayVars,
                   display_pc, fb_last, events, flow>>

\* The set_ambient task scheduled by _sync_ambient_led runs.
SetAmbientRun ==
    /\ set_ambient_task # "none"
    /\ led' = SetAmbient(led, set_ambient_task)
    /\ set_ambient_task' = "none"
    /\ UNCHANGED <<uiVars, taskVars, voiceVars, envVars, brain_led_ambient, bg_ack,
                   relayVars, display_pc, fb_last, events, flow>>

(***************************************************************************)
(* Inbound relay events (leeloo_brain.py 287-410).  The LED task an event  *)
(* starts takes its first step with the event.                             *)
(***************************************************************************)
\* _on_ws_message and the start of _handle_message_with_music (287-308).
WsMessage ==
    /\ events < MaxEvents
    /\ led.wrap["message_received"] = "none"
    /\ music_lookup = "none"
    /\ led' = RunAnimationBegin(led, "message_received")
    /\ Submit("MESSAGES")
    /\ music_lookup' = "message"
    /\ events' = events + 1
    /\ UNCHANGED <<uiVars, voiceVars, envVars, ambientVars, bg_ack, show_note,
                   display_pc, fb_last, flow>>

\* _on_ws_song_push (335-379): with a note the overlay is submitted by
\* _show_note after 3 s, without one it is submitted at once.
WsSongPush(note) ==
    /\ events < MaxEvents
    /\ led.wrap["music_received"] = "none"
    /\ music_lookup = "none"
    /\ led' = RunAnimationBegin(led, "music_received")
    /\ music_lookup' = "song"
    /\ events' = events + 1
    /\ IF note
       THEN /\ show_note = 0
            /\ show_note' = 1
            /\ UNCHANGED taskVars
       ELSE /\ Submit("ALBUM")
            /\ UNCHANGED show_note
    /\ UNCHANGED <<uiVars, voiceVars, envVars, ambientVars, bg_ack, display_pc, fb_last,
                   flow>>

\* _show_note wakes from its sleep and submits the note overlay (360-369).
ShowNoteFire ==
    /\ show_note > 0
    /\ show_note' = show_note - 1
    /\ Submit("MESSAGES")
    /\ UNCHANGED <<uiVars, voiceVars, envVars, led, ambientVars, bg_ack, music_lookup,
                   display_pc, fb_last, events, flow>>

\* The music lookup of a relay event returns.  found: a track was found
\* (lines 316-321 force a refresh and render the idle screen; 351-354 only
\* refresh).
MusicLookupDone(found) ==
    /\ music_lookup # "none"
    /\ music_lookup' = "none"
    /\ IF found
       THEN /\ SyncAmbientLed
            /\ fb_last' = IF music_lookup = "message" THEN 0 ELSE fb_last
       ELSE UNCHANGED <<ambientVars, fb_last>>
    /\ UNCHANGED <<uiVars, taskVars, voiceVars, envVars, led, bg_ack, show_note,
                   display_pc, events, flow>>

\* Mutant of WsNudge: the nudge is shown like a message, with an expansion.
WsNudgeExpands ==
    /\ events < MaxEvents
    /\ led.wrap["nudge"] = "none"
    /\ led' = RunAnimationBegin(led, "nudge")
    /\ Submit("MESSAGES")
    /\ events' = events + 1
    /\ UNCHANGED <<uiVars, voiceVars, envVars, ambientVars, bg_ack, relayVars,
                   display_pc, fb_last, flow>>

\* _on_ws_nudge (381-384).
WsNudge ==
    /\ events < MaxEvents
    /\ led.wrap["nudge"] = "none"
    /\ led' = RunAnimationBegin(led, "nudge")
    /\ events' = events + 1
    /\ UNCHANGED <<uiVars, taskVars, voiceVars, envVars, ambientVars, bg_ack, relayVars,
                   display_pc, fb_last, flow>>

\* _on_ws_reaction (329-333).
WsReaction ==
    /\ events < MaxEvents
    /\ bg_ack = "none"
    /\ led' = AckBegin(led)
    /\ bg_ack' = "sleeping"
    /\ flow' = Rec([flow EXCEPT !.acks = Sat(flow.acks)])
    /\ events' = events + 1
    /\ UNCHANGED <<uiVars, taskVars, voiceVars, envVars, ambientVars, relayVars,
                   display_pc, fb_last>>

\* _on_ws_hang_propose (386-397).
WsHangPropose ==
    /\ events < MaxEvents
    /\ Submit("MESSAGES")
    /\ events' = events + 1
    /\ UNCHANGED <<uiVars, voiceVars, envVars, led, ambientVars, bg_ack, relayVars,
                   display_pc, fb_last, flow>>

\* _on_ws_hang_confirm (399-410).
WsHangConfirm ==
    /\ events < MaxEvents
    /\ bg_ack = "none"
    /\ led' = AckBegin(led)
    /\ bg_ack' = "sleeping"
    /\ Submit("MESSAGES")
    /\ flow' = Rec([flow EXCEPT !.acks = Sat(flow.acks)])
    /\ events' = events + 1
    /\ UNCHANGED <<uiVars, voiceVars, envVars, ambientVars, relayVars, display_pc,
                   fb_last>>

(***************************************************************************)
(* The display loop (leeloo_brain.py 1694-1714) and the music source.      *)
(***************************************************************************)
\* Line 1700-1702: the loop wakes, tests the state and hands _display_tick to
\* the executor.  When the state is not NORMAL it only sleeps again.
DisplayCheck ==
    /\ display_pc = "sleep"
    /\ ui_state = "NORMAL"
    /\ display_pc' = "in_executor"
    /\ UNCHANGED <<uiVars, taskVars, voiceVars, envVars, led, ambientVars, bg_ack,
                   relayVars, fb_last, events, flow>>

\* _display_tick on the worker thread (1708-1714).  refresh: the music
\* refresh interval has elapsed.  When the refresh finds a changed playback
\* state, _sync_ambient_led records it and ensure_future raises (the worker
\* thread has no event loop), so the tick ends before _render_normal.
DisplayTick(refresh) ==
    /\ display_pc = "in_executor"
    /\ display_pc' = "sleep"
    /\ IF refresh /\ PlaybackState # brain_led_ambient
       THEN /\ brain_led_ambient' = PlaybackState
            /\ UNCHANGED fb_last
       ELSE /\ fb_last' = 0
            /\ UNCHANGED brain_led_ambient
    /\ UNCHANGED <<uiVars, taskVars, voiceVars, envVars, led, set_ambient_task, bg_ack,
                   relayVars, events, flow>>

\* Playback starts or stops on the music source.
PlaybackChange ==
    /\ events < MaxEvents
    /\ spotify_playing' = ~spotify_playing
    /\ events' = events + 1
    /\ UNCHANGED <<uiVars, taskVars, voiceVars, cfg, otherVars, led, ambientVars, bg_ack,
                   relayVars, display_pc, fb_last, flow>>

(***************************************************************************)
(* Double and triple taps (leeloo_brain.py 802-811, 870-895).  The handler  *)
(* runs in the _resolve_taps task of the tap manager, so it starts only     *)
(* when no other tap handler is running.  ws_client is constructed          *)
(* unconditionally in __init__ (176), so "if self.ws_client" holds.         *)
(***************************************************************************)
\* The condition of line 872.
DoubleTapBranch == message_view_active

\* _handle_double_tap (870-885) up to its first suspension.
DoubleTap ==
    /\ voice_pc = "idle"
    /\ dispatch.pc = "idle"
    /\ dispatch.n < MaxDispatch
    /\ IF DoubleTapBranch
       THEN /\ led' = AckBegin(led)
            /\ dispatch' = [dispatch EXCEPT !.pc = "ack", !.kind = "double_tap", !.n = @ + 1]
       ELSE /\ led.wrap["nudge"] = "none"
            /\ led' = RunAnimationBegin(led, "nudge")
            /\ dispatch' = [dispatch EXCEPT !.kind = "double_tap", !.n = @ + 1,
                                            !.sent = Append(@, "nudge")]
    /\ UNCHANGED <<uiVars, taskVars, voiceVars, cfg, spotify_playing, sideVars, ambientVars,
                   bg_ack,
                   relayVars, display_pc, fb_last, events, flow>>

\* _handle_triple_tap (887-895) up to its first suspension.
TripleTap ==
    /\ voice_pc = "idle"
    /\ dispatch.pc = "idle"
    /\ dispatch.n < MaxDispatch
    /\ IF message_view_active
       THEN /\ led' = AckBegin(led)
            /\ dispatch' = [dispatch EXCEPT !.pc = "ack", !.kind = "triple_tap", !.n = @ + 1]
       ELSE /\ dispatch' = [dispatch EXCEPT !.kind = "triple_tap", !.n = @ + 1]
            /\ UNCHANGED led
    /\ UNCHANGED <<uiVars, taskVars, voiceVars, cfg, spotify_playing, sideVars, ambientVars,
                   bg_ack,
                   relayVars, display_pc, fb_last, events, flow>>

\* led.ack() returns and the reaction is handed to the relay client
\* (875-878, 891-893).
ReactionAckDone ==
    /\ dispatch.pc = "ack"
    /\ led' = AckEnd(led)
    /\ dispatch' = [dispatch EXCEPT
                      !.pc = "idle",
                      !.sent = Append(@, IF dispatch.kind = "double_tap"
                                         THEN "reaction:love" ELSE "reaction:fire")]
    /\ UNCHANGED <<uiVars, taskVars, voiceVars, cfg, spotify_playing, sideVars, ambientVars,
                   bg_ack,
                   relayVars, display_pc, fb_last, events, flow>>

\* A raw tap arrives during the 100 ms of led.ack(): _on_tap_detected cancels
\* the task running the handler (leeloo_tap.py 139-141).
TapCancelsReaction ==
    /\ dispatch.pc = "ack"
    /\ dispatch' = [dispatch EXCEPT !.pc = "idle"]
    /\ UNCHANGED <<uiVars, taskVars, voiceVars, cfg, spotify_playing, sideVars, led, ambientVars,
                   bg_ack, relayVars, display_pc, fb_last, events, flow>>

(***************************************************************************)
(* The tap manager's poll loop and resolution task (leeloo_tap.py 79-169). *)
(***************************************************************************)
brainVars == <<uiVars, taskVars, voiceVars, cfg, spotify_playing, dispatch, led, ambientVars,
               bg_ack, relayVars, display_pc, fb_last, events, flow>>

exceptTap == <<brainVars, ledm, cap, conn, faults, tw, sess, scroll, rx, hist>>
exceptLedm == <<brainVars, tap, cap, conn, faults, tw, sess, scroll, rx, hist>>
exceptCap == <<brainVars, tap, ledm, conn, faults, tw, sess, scroll, rx, hist>>
exceptConn == <<brainVars, tap, ledm, cap, tw, sess, scroll, rx, hist>>
exceptTw == <<brainVars, tap, ledm, cap, conn, faults, sess, scroll, rx, hist>>
exceptSess == <<tap, ledm, cap, conn, faults, tw, scroll, rx, hist>>
exceptScroll == <<brainVars, tap, ledm, cap, conn, faults, tw, sess, rx, hist>>
exceptRx == <<brainVars, tap, ledm, cap, conn, faults, tw, sess, scroll, hist>>
exceptHist == <<brainVars, tap, ledm, cap, conn, faults, tw, sess, scroll, rx>>

Abs(x) == IF x < 0 THEN -x ELSE x

\* self.accel.acceleration, as a magnitude: a tap shows in the first reading
\* taken within one poll interval of it.
Magnitude(tp) ==
    IF tp.spike > 0 /\ tp.now - tp.spike_t <= POLL_INTERVAL
    THEN RestMagnitude + tp.spike
    ELSE RestMagnitude

\* _check_tap (79-99): the delta of this reading, and whether it is a hit.
CheckTapDelta(tp) == Abs(Magnitude(tp) - tp.prev_magnitude)

CheckTap(tp) == tp.accel /\ CheckTapDelta(tp) > TAP_THRESHOLD

OnTapDetectedNoRestart(tp) ==
    IF tp.now - tp.last_tap_time < DEBOUNCE_TIME
    THEN tp
    ELSE [tp EXCEPT !.last_tap_time = tp.now,
                    !.tap_count = @ + 1,
                    !.raw = @ + 1]

\* _on_tap_detected (127-147).
OnTapDetected(tp) ==
    IF tp.now - tp.last_tap_time < DEBOUNCE_TIME
    THEN tp
    ELSE [tp EXCEPT !.last_tap_time = tp.now,
                    !.tap_count = @ + 1,
                    !.raw = @ + 1,
                    !.pending_task = "created",
                    !.pending_wake = 0]

\* The earliest timer of the tap manager that has not fired.
NextWake ==
    IF tap.pending_task = "sleeping" /\ tap.pending_wake < tap.loop_wake
    THEN tap.pending_wake
    ELSE tap.loop_wake

\* Nothing of the tap manager is runnable at the current instant.
TapIdle ==
    /\ tap.loop_wake > tap.now
    /\ tap.pending_task # "created"
    /\ tap.pending_task = "sleeping" => tap.pending_wake > tap.now

\* start (154-156, 169): one pass of the poll loop that is not in a settle.
LoopPoll ==
    /\ tap.loop_pc = "poll"
    /\ tap.loop_wake = tap.now
    /\ LET read == [tap EXCEPT !.prev_magnitude = IF tap.accel THEN Magnitude(tap) ELSE @,
                               !.last_delta = IF tap.accel THEN CheckTapDelta(tap) ELSE @,
                               !.spike = 0]
       IN  tap' = IF CheckTap(tap)
                  THEN [OnTapDetected(read) EXCEPT !.loop_pc = "settle",
                                                   !.loop_wake = tap.now + SETTLE_TIME]
                  ELSE [read EXCEPT !.loop_wake = tap.now + POLL_INTERVAL]
    /\ UNCHANGED exceptTap

\* start (158-167): the settle sleep is over; each pass of the drain loop
\* overwrites _prev_magnitude and sleeps one poll interval; after the last
\* pass the loop sleeps the poll interval of line 169.
LoopDrain ==
    /\ tap.loop_pc \in {"settle", "drain"}
    /\ tap.loop_wake = tap.now
    /\ LET left == IF tap.loop_pc = "settle" THEN SETTLE_DRAIN_READS ELSE tap.drain_left
       IN  tap' = IF left > 0
                  THEN [tap EXCEPT !.loop_pc = "drain",
                                   !.drain_left = left - 1,
                                   !.prev_magnitude = Magnitude(tap),
                                   !.spike = 0,
                                   !.loop_wake = tap.now + POLL_INTERVAL]
                  ELSE [tap EXCEPT !.loop_pc = "poll",
                                   !.loop_wake = tap.now + POLL_INTERVAL]
    /\ UNCHANGED exceptTap

\* The tap type _resolve_taps gives a count (103-104, 109-114).
TapType(count) ==
    IF count >= 3 THEN "triple_tap"
    ELSE IF count >= 2 THEN "double_tap"
    ELSE "single_tap"

\* _resolve_taps (116-125): reset the counter and call the callback.
Emit(tp) ==
    [tp EXCEPT !.emitted = Append(@, TapType(tp.tap_count)),
               !.tap_count = 0,
               !.pending_task = "none"]

\* _resolve_taps (101-107): the first step of the task.
ResolveStart ==
    /\ tap.pending_task = "created"
    /\ tap' = IF tap.tap_count >= 3
              THEN Emit(tap)
              ELSE [tap EXCEPT !.pending_task = "sleeping",
                               !.pending_wake = tap.now + IF tap.tap_count >= 2
                                                          THEN TRIPLE_TAP_WINDOW
                                                          ELSE DOUBLE_TAP_WINDOW]
    /\ UNCHANGED exceptTap

\* _resolve_taps (107-125): the wait is over.
ResolveWake ==
    /\ tap.pending_task = "sleeping"
    /\ tap.pending_wake = tap.now
    /\ tap' = Emit(tap)
    /\ UNCHANGED exceptTap

\* Time passes to the next timer of the tap manager.
Advance ==
    /\ TapIdle
    /\ Len(tap.phys) > 0
    /\ NextWake <= MaxTime
    /\ tap' = [tap EXCEPT !.now = NextWake]
    /\ UNCHANGED exceptTap

\* Somebody taps the case with strength s, d ticks after the previous tap
\* (the first tap lands on the first poll).
PhysicalTap(d, s) ==
    LET t == IF Len(tap.phys) = 0 THEN Epoch ELSE tap.phys[Len(tap.phys)].t + d
    IN  /\ Len(tap.phys) < MaxPhys
        /\ tap.now <= t
        /\ t > tap.now => TapIdle /\ t <= NextWake
        /\ tap' = [tap EXCEPT !.now = t,
                              !.spike = s,
                              !.spike_t = t,
                              !.phys = Append(@, [t |-> t, s |-> s])]
        /\ UNCHANGED exceptTap

(***************************************************************************)
(* The LED manager under its public operations, issued in any order        *)
(* (leeloo_led.py 95-304).  ledm.pix is the colour last written to the     *)
(* LEDs, named after its writer; ledm.fx is what the latest set_ambient did, *)
(* ledm.sets the set_ambient calls made in a row (the last two).           *)
(***************************************************************************)
\* The animation tasks that are running.
TransientsRunning(l) == {n \in WrapNames : l.wrap[n] = "waiting"}

\* Some ambient breathe task is running, referenced or not.
BreatheRunning(l) == l.ambient_task \/ l.orphans > 0

\* The colour on the LEDs after a step: a running task keeps writing its
\* colour (73-93); otherwise the last write of the step stands, or the colour
\* that was there when the step wrote nothing ("keep").
PixAfter(l, write) ==
    IF TransientsRunning(l) # {}
    THEN IF l.animation_task \in TransientsRunning(l)
         THEN l.animation_task
         ELSE CHOOSE n \in TransientsRunning(l) : TRUE
    ELSE IF BreatheRunning(l) THEN "ambient"
    ELSE IF write # "keep" THEN write
    ELSE ledm.pix

NoFx == [cancelled |-> FALSE, off |-> FALSE, started |-> FALSE]

\* The state after an operation other than set_ambient.
LedStep(l, write, acks) ==
    /\ ledm' = [m |-> l, pix |-> PixAfter(l, write), acks |-> acks, fx |-> NoFx, sets |-> <<>>]
    /\ UNCHANGED exceptLedm

\* ack() up to its sleep (190-196).
LedAck ==
    /\ ledm.acks = 0
    /\ LedStep(AckBegin(ledm.m), "ack", 1)

\* ack() after its sleep (197-200).
LedAckDone ==
    /\ ledm.acks = 1
    /\ LedStep(AckEnd(ledm.m), "OFF", 0)

\* listening() (202-208).
LedListening == LedStep(Listening(ledm.m), "listening", ledm.acks)

\* processing(), message_received(), music_received(), nudge(), error()
\* (210-281) up to the await of the animation task.
LedRun(name) ==
    /\ ledm.m.wrap[name] = "none"
    /\ LedStep(RunAnimationBegin(ledm.m, name), "keep", ledm.acks)

\* Two animations a and b are started in the same turn of the loop while an
\* animation task is running: both cancel it and await it in _cancel_current
\* (97-102); its own _run_animation finishes first, then a's continues and
\* creates its task (103, 110-113), then b's continues and replaces the
\* reference (103, 110-111) without cancelling a's task.
LedRunPair(a, b) ==
    /\ a # b
    /\ ledm.m.animation_task \notin {"none", a, b}
    /\ ledm.m.wrap[a] = "none"
    /\ ledm.m.wrap[b] = "none"
    /\ LedStep([RunAnimationBegin(ledm.m, a) EXCEPT !.current_animation = b,
                                                     !.animation_task = b,
                                                     !.wrap[b] = "waiting"],
               "keep", ledm.acks)

\* An animation task runs to its end: the blinks and the error flash end
\* with OFF (237, 250, 278), the nudge with its last cyan level (265); the
\* processing breathe never ends.
LedAnimationDone(name) ==
    /\ name # "processing"
    /\ ledm.m.wrap[name] = "waiting"
    /\ LedStep([ledm.m EXCEPT !.animation_task = IF @ = name THEN "none" ELSE @,
                              !.wrap[name] = "wake"],
               IF name = "nudge" THEN "keep" ELSE "OFF", ledm.acks)

\* _run_animation resumes after its task ended (114-122).
LedWrapEnd(name) ==
    /\ ledm.m.wrap[name] = "wake"
    /\ LedStep(RunAnimationEnd(ledm.m, name),
               IF ledm.m.current_animation = name THEN "OFF" ELSE "keep", ledm.acks)

\* The caller of error() resumes after the animation was cancelled.
LedErrorReturn ==
    /\ ledm.m.wrap["error"] = "ended"
    /\ LedStep([ledm.m EXCEPT !.wrap["error"] = "none"], "keep", ledm.acks)

\* off() (283-289).
LedOff == LedStep(Off(ledm.m), "OFF", ledm.acks)

\* off_all() (291-296).
LedOffAll == LedStep(OffAll(ledm.m), "OFF", ledm.acks)

\* set_ambient(state) (157-188).
LedSetAmbient(state) ==
    LET l == SetAmbient(ledm.m, state)
        fx == SetAmbientFx(ledm.m, state)
    IN  /\ ledm' = [m |-> l,
                    pix |-> PixAfter(l, IF fx.off THEN "OFF" ELSE "keep"),
                    acks |-> ledm.acks,
                    fx |-> fx,
                    sets |-> LET call == [state |-> state, breathing |-> ledm.m.ambient_task]
                             IN  IF Len(ledm.sets) = 2 THEN <<ledm.sets[2], call>>
                                 ELSE Append(ledm.sets, call)]
        /\ UNCHANGED exceptLedm

(***************************************************************************)
(* Specifications.                                                         *)
(***************************************************************************)
ExpandNext ==
    \E t \in TaskIds :
        \/ ExpandStart(t)
        \/ ExpandResume(t)
        \/ ExpandStep(t)
        \/ ExpandCancelled(t)
        \/ ExpandRaises(t)

VoiceNext ==
    \/ VoiceAckDone
    \/ \E empty \in BOOLEAN : VoiceRecordDone(empty)
    \/ \E empty \in BOOLEAN : VoiceOnlyRecordDone(empty)
    \/ \E a \in IntentActions, suspend \in BOOLEAN, raises \in BOOLEAN :
           VoiceRouteDone(a, suspend, raises)
    \/ VoiceExecuteDone
    \/ VoiceExecuteRaises
    \/ VoiceErrorDone

LedNext ==
    \/ ProcessingStart
    \/ \E name \in WrapNames : AnimationDone(name)
    \/ \E name \in WrapNames : WrapEnd(name)
    \/ BgAckStep
    \/ SetAmbientRun

RelayNext ==
    \/ WsMessage
    \/ \E note \in BOOLEAN : WsSongPush(note)
    \/ ShowNoteFire
    \/ \E found \in BOOLEAN : MusicLookupDone(found)
    \/ WsNudge
    \/ WsReaction
    \/ WsHangPropose
    \/ WsHangConfirm

DisplayNext ==
    \/ DisplayCheck
    \/ \E refresh \in BOOLEAN : DisplayTick(refresh)

Next ==
    \/ TapDismiss
    \/ TapIgnored
    \/ TapStartsFlow
    \/ TapCancelsPending
    \/ VoiceNext
    \/ ExpandNext
    \/ LedNext
    \/ RelayNext
    \/ DisplayNext
    \/ PlaybackChange

\* Every interleaving of taps, relay events, playback changes and task steps.
Spec == Init /\ [][Next]_vars

\* The device at rest: Normal, no tap handler running, no expand task alive.
AtRest ==
    /\ ui_state = "NORMAL"
    /\ voice_pc = "idle"
    /\ \A t \in TaskIds : task[t].pc = "free"

\* A single tap on the device at rest.
ScenarioTap == AtRest /\ TapStartsFlow

ExpandNextScenario ==
    \E t \in TaskIds :
        \/ ExpandStart(t)
        \/ ExpandResume(t)
        \/ ExpandStep(t)
        \/ ExpandRaises(t)

LedNextScenario ==
    \/ ProcessingStart
    \/ \E name \in WrapNames : AnimationDone(name)
    \/ \E name \in WrapNames : WrapEnd(name)
    \/ SetAmbientRun

NextScenario ==
    \/ ScenarioTap
    \/ TapIgnored
    \/ VoiceNext
    \/ ExpandNextScenario
    \/ LedNextScenario
    \/ DisplayNext
    \/ PlaybackChange

\* End-to-end single-tap flows: every tap arrives with the device at rest, no
\* relay event arrives, and the history of each flow is recorded in `flow`.
SpecScenario == InitWith(TRUE) /\ [][NextScenario]_vars

DispatchNext ==
    \/ DoubleTap
    \/ TripleTap
    \/ ReactionAckDone
    \/ TapCancelsReaction

LedNextDispatch ==
    \/ \E name \in WrapNames : AnimationDone(name)
    \/ \E name \in WrapNames : WrapEnd(name)

NextDispatch ==
    \/ DispatchNext
    \/ WsHangPropose
    \/ TapDismiss
    \/ ExpandNext
    \/ LedNextDispatch

\* Double and triple taps interleaved with the expansions that hang
\* proposals start and with taps that dismiss them; no voice flow.
SpecDispatch == Init /\ [][NextDispatch]_vars

NextTap ==
    \/ LoopPoll
    \/ LoopDrain
    \/ ResolveStart
    \/ ResolveWake
    \/ Advance
    \/ \E d \in TapGaps, s \in Strengths : PhysicalTap(d, s)

\* The brain plays no part in the tap manager's steps: one configuration.
InitTap == Init /\ cfg.client /\ spotify_playing

\* The tap manager alone, with up to MaxPhys taps on the case.
SpecTap == InitTap /\ [][NextTap]_vars

NextLed ==
    \/ LedAck
    \/ LedAckDone
    \/ LedListening
    \/ \E name \in WrapNames : LedRun(name)
    \/ \E a \in WrapNames, b \in WrapNames : LedRunPair(a, b)
    \/ \E name \in WrapNames : LedAnimationDone(name)
    \/ \E name \in WrapNames : LedWrapEnd(name)
    \/ LedErrorReturn
    \/ LedOff
    \/ LedOffAll
    \/ \E state \in {"idle", "playing"} : LedSetAmbient(state)

\* The LED manager alone, its operations issued in every order.
SpecLed == InitTap /\ [][NextLed]_vars

(***************************************************************************)
(* Voice capture (leeloo_voice.py 66-282): record_and_transcribe up to the *)
(* end of _stream_audio, one action per resumption of the coroutine.       *)
(***************************************************************************)
RECURSIVE SumSq(_)
SumSq(samples) ==
    IF samples = <<>> THEN 0 ELSE Head(samples) * Head(samples) + SumSq(Tail(samples))

\* rms > SILENCE_THRESHOLD (252) with rms = sqrt(sum_sq / n_samples) and 0
\* for a chunk of no sample (_compute_rms 66-78), compared without the root.
RmsAboveThreshold(chunk) ==
    /\ Len(chunk) > 0
    /\ SumSq(chunk) > SILENCE_THRESHOLD * SILENCE_THRESHOLD * Len(chunk)

LoopContinuesOneMore(c) == c.recording /\ c.total_chunks < max_chunks + 1

\* The while condition of _stream_audio (232).
LoopContinues(c) == c.recording /\ c.total_chunks < max_chunks

\* Why the while condition ended the loop.
LoopExit(c) == IF c.recording THEN "max" ELSE "cancel"

\* The loop condition evaluated after an iteration that did not break.
LoopTop(c) ==
    IF LoopContinues(c) THEN c ELSE [c EXCEPT !.pc = "stopped", !.stop = LoopExit(c)]

\* The shape of the stream after one more chunk, the total-th.
PatternAfter(pattern, total, loud) ==
    IF total <= grace_chunks THEN "grace"
    ELSE IF loud THEN (IF pattern \in {"grace", "loud"} THEN "loud" ELSE "mixed")
    ELSE IF pattern \in {"loud", "quiet"} THEN "quiet" ELSE "mixed"

\* The state of a capture that has not begun, for this VoiceManager.
CapFresh == [CapInit EXCEPT !.api_key = cap.api_key, !.ws_lib = cap.ws_lib]

\* The call has ended with the empty transcript for the given reason and
\* without the finally clause of 215-216.
CapReturnsEarly(failure) ==
    [cap EXCEPT !.pc = "idle", !.result = "empty", !.failure = failure]

\* An exception reaches the handlers of 208-213 and the finally clause of
\* 215-216; the transcript is still "" (108).
CapFails(failure) ==
    [cap EXCEPT !.pc = "idle", !.recording = FALSE, !.result = "empty",
                !.failure = failure, !.clean = FALSE]

\* record_and_transcribe 98-108: without the library or without a key the
\* call returns "" at once; otherwise _recording = True and the coroutine
\* waits for the connection and for arecord to start.
CapStart ==
    /\ cap.pc = "idle"
    /\ cap' = IF ~cap.ws_lib THEN [CapFresh EXCEPT !.result = "empty", !.failure = "no_library"]
              ELSE IF ~cap.api_key THEN [CapFresh EXCEPT !.result = "empty", !.failure = "no_key"]
              ELSE [CapFresh EXCEPT !.pc = "connecting", !.recording = TRUE]
    /\ UNCHANGED exceptCap

CapConnectFailsNoFinally(failure) ==
    /\ cap.pc = "connecting"
    /\ cap' = CapReturnsEarly(failure)
    /\ UNCHANGED exceptCap

\* websockets.connect raises (refused, or the key is rejected), or
\* create_subprocess_exec raises inside the connection (133-137): 208-216.
CapConnectFails(failure) ==
    /\ cap.pc = "connecting"
    /\ cap' = CapFails(failure)
    /\ UNCHANGED exceptCap

\* 110-180, 223-232: connected, arecord started, the loop condition is
\* evaluated for the first time.
CapConnected ==
    /\ cap.pc = "connecting"
    /\ cap' = LoopTop([cap EXCEPT !.pc = "streaming"])
    /\ UNCHANGED exceptCap

\* VoiceManager.cancel (280-282), called while the coroutine is suspended.
CapCancel ==
    /\ cap.pc \in {"connecting", "streaming"}
    /\ cap.recording
    /\ cap' = [cap EXCEPT !.recording = FALSE, !.clean = FALSE]
    /\ UNCHANGED exceptCap

\* 235-267: a non-empty chunk is read and sent, then counted and examined.
StreamChunk(chunk) ==
    /\ cap.pc = "streaming"
    /\ LET total == cap.total_chunks + 1
           checked == total > grace_chunks
           loud == RmsAboveThreshold(chunk)
           heard == IF checked /\ loud THEN TRUE ELSE cap.has_heard_speech
           silence == IF ~checked THEN cap.silence_samples
                      ELSE IF loud THEN 0 ELSE cap.silence_samples + 1
           c == [cap EXCEPT !.total_chunks = total,
                            !.has_heard_speech = heard,
                            !.silence_samples = silence,
                            !.loud_only = cap.loud_only /\ loud,
                            !.full_only = cap.full_only /\ Len(chunk) = ChunkLen,
                            !.pattern = PatternAfter(cap.pattern, total, loud)]
       IN cap' = IF checked /\ heard /\ silence >= silence_chunks_needed
                     THEN [c EXCEPT !.pc = "stopped", !.stop = "silence"]
                 ELSE IF checked /\ ~heard /\ total >= no_speech_chunks
                     THEN [c EXCEPT !.pc = "stopped", !.stop = "no_speech"]
                 ELSE LoopTop(c)
    /\ UNCHANGED exceptCap

\* 240-242: the read returns no byte, arecord has ended.
StreamEof ==
    /\ cap.pc = "streaming"
    /\ cap' = [cap EXCEPT !.pc = "stopped", !.stop = "eof", !.clean = FALSE]
    /\ UNCHANGED exceptCap

\* 269-271: no byte within one second.
StreamTimeout ==
    /\ cap.pc = "streaming"
    /\ cap' = [cap EXCEPT !.pc = "stopped", !.stop = "timeout", !.clean = FALSE]
    /\ UNCHANGED exceptCap

\* 272-274: the read or ws.send raises; the chunk is not counted.
StreamError ==
    /\ cap.pc = "streaming"
    /\ cap' = [cap EXCEPT !.pc = "stopped", !.stop = "error", !.clean = FALSE]
    /\ UNCHANGED exceptCap

\* 181-219: the stream is closed, arecord killed, the results awaited and
\* joined, _recording = False.  Deepgram has text only for audio it was sent;
\* outcome "raises" is an exception in 190-201 (process.kill on a process
\* that is gone), which 210-216 turn into "".
CapFinish(outcome) ==
    /\ cap.pc = "stopped"
    /\ outcome = "text" => cap.total_chunks > 0
    /\ cap' = IF outcome = "raises" THEN CapFails("cleanup")
              ELSE [cap EXCEPT !.pc = "idle", !.recording = FALSE, !.result = outcome,
                               !.failure = IF cap.total_chunks = 0 THEN "no_audio" ELSE "none"]
    /\ UNCHANGED exceptCap

ConnectFailures == {"refused", "auth", "arecord"}

NextCapture ==
    \/ CapStart
    \/ \E failure \in ConnectFailures : CapConnectFails(failure)
    \/ CapConnected
    \/ CapCancel
    \/ \E chunk \in Chunks : StreamChunk(chunk)
    \/ StreamEof
    \/ StreamTimeout
    \/ StreamError
    \/ \E outcome \in {"text", "empty", "raises"} : CapFinish(outcome)

\* Voice capture alone, with every configuration, fed every stream of chunks.
InitCapture ==
    /\ InitBase(FALSE)
    /\ cfg.client
    /\ spotify_playing
    /\ tap.accel
    /\ cap \in CapInits
    /\ conn = ConnInit(FALSE)
    /\ faults = NoFaults
    /\ tw = TwInit

SpecCapture == InitCapture /\ [][NextCapture]_vars

(***************************************************************************)
(* The relay connection loop (leeloo_brain.py 2000-2048).  What connect,   *)
(* rejoin_crew and create_crew of the relay client return or raise is an   *)
(* input of each step.                                                     *)
(***************************************************************************)
NextDelayUncapped(d) == d * 2

\* Line 2048.
NextDelay(d) == Min(d * 2, max_delay)

\* Lines 2038-2047 up to the sleep: the pass has ended without a session
\* or with an exception caught at 2043.
Backoff(c, raised) ==
    /\ c.failures < MaxFailures
    /\ raised => faults.relay < MaxFaults
    /\ conn' = [c EXCEPT !.pc = "sleep", !.failures = @ + 1, !.waited = c.retry_delay]
    /\ faults' = [faults EXCEPT !.relay = IF raised THEN @ + 1 ELSE @]

\* Lines 2020-2025: joined; the delay is reset and the two tasks are created.
Join(c) ==
    /\ conn' = [c EXCEPT !.pc = "session", !.retry_delay = base_delay, !.failures = 0,
                         !.sessions = Min(@ + 1, 2),
                         !.listen = "running", !.keepalive = "running",
                         !.overlap = @ \/ c.listen # "none" \/ c.keepalive # "none"]
    /\ UNCHANGED faults

\* Line 2008: connect() returns True or False, or raises.
ConnConnect(outcome) ==
    /\ conn.pc = "connect"
    /\ IF outcome = "ok"
       THEN conn' = [conn EXCEPT !.pc = "rejoin"] /\ UNCHANGED faults
       ELSE Backoff(conn, outcome = "raises")
    /\ UNCHANGED exceptConn

ConnRejoinAnyoneCreates(outcome) ==
    /\ conn.pc = "rejoin"
    /\ IF outcome = "ok" THEN Join(conn)
       ELSE IF outcome = "no"
            THEN conn' = [conn EXCEPT !.pc = "create"] /\ UNCHANGED faults
       ELSE Backoff(conn, outcome = "raises")
    /\ UNCHANGED exceptConn

\* Lines 2010-2011: rejoin_crew() returns True or False, or raises.
ConnRejoin(outcome) ==
    /\ conn.pc = "rejoin"
    /\ IF outcome = "ok" THEN Join(conn)
       ELSE IF outcome = "no" /\ conn.is_creator
            THEN conn' = [conn EXCEPT !.pc = "create"] /\ UNCHANGED faults
       ELSE Backoff(conn, outcome = "raises")
    /\ UNCHANGED exceptConn

\* Lines 2015-2018: create_crew() returns a code or nothing, or raises.
ConnCreate(outcome) ==
    /\ conn.pc = "create"
    /\ IF outcome = "ok" THEN Join(conn) ELSE Backoff(conn, outcome = "raises")
    /\ UNCHANGED exceptConn

\* The session tasks after asyncio.wait returned with the tasks in `ended`
\* done, the pending ones left alone.
AfterWaitNoCancel(c, ended) ==
    [c EXCEPT !.listen = IF "listen" \in ended THEN "none" ELSE @,
              !.keepalive = IF "keepalive" \in ended THEN "none" ELSE @]

\* Lines 2028-2034: asyncio.wait returns with the tasks in `ended` done, and
\* the pending ones are cancelled.
AfterWait(c, ended) ==
    [c EXCEPT !.listen = IF "listen" \in ended THEN "none" ELSE "cancelled",
              !.keepalive = IF "keepalive" \in ended THEN "none" ELSE "cancelled"]

\* Lines 2028-2047: the listener, the keepalive loop or both have ended;
\* the loop goes to the backoff.
SessionEnds(ended) ==
    /\ conn.pc = "session"
    /\ ended # {}
    /\ Backoff(AfterWait(conn, ended), FALSE)
    /\ UNCHANGED exceptConn

\* A cancelled session task takes its CancelledError and ends.
CancelledTaskEnds(name) ==
    /\ name = "listen" => conn.listen = "cancelled" /\ conn' = [conn EXCEPT !.listen = "none"]
    /\ name = "keepalive" =>
           conn.keepalive = "cancelled" /\ conn' = [conn EXCEPT !.keepalive = "none"]
    /\ UNCHANGED <<faults, exceptConn>>

\* Lines 2047-2048, 2006: the sleep is over, the delay is doubled and the
\* next pass begins.  A cancelled task is runnable at once and the sleep
\* lasts 5 s or more, so the task has taken its cancellation by then.
ConnWake ==
    /\ conn.pc = "sleep"
    /\ conn.listen # "cancelled"
    /\ conn.keepalive # "cancelled"
    /\ conn' = [conn EXCEPT !.pc = "connect", !.retry_delay = NextDelay(@)]
    /\ UNCHANGED <<faults, exceptConn>>

Outcomes == {"ok", "no", "raises"}

SessionTasks == {"listen", "keepalive"}

NextConn ==
    \/ \E outcome \in Outcomes : ConnConnect(outcome)
    \/ \E outcome \in Outcomes : ConnRejoin(outcome)
    \/ \E outcome \in Outcomes : ConnCreate(outcome)
    \/ \E ended \in SUBSET SessionTasks : SessionEnds(ended)
    \/ \E name \in SessionTasks : CancelledTaskEnds(name)
    \/ ConnWake

InitConn ==
    /\ InitBase(FALSE)
    /\ cfg.client
    /\ spotify_playing
    /\ tap.accel
    /\ cap = CapInit
    /\ conn \in {ConnInit(c) : c \in BOOLEAN}
    /\ faults = NoFaults
    /\ tw = TwInit

\* The relay connection loop alone, with every outcome of every attempt.
SpecConn == InitConn /\ [][NextConn]_vars

(***************************************************************************)
(* The three main loops side by side (leeloo_brain.py 1694-1706,           *)
(* 2000-2048, leeloo_tap.py 79-99, 149-169), each with its exceptions.     *)
(***************************************************************************)
exceptLoops == <<uiVars, taskVars, voiceVars, cfg, spotify_playing, dispatch, led,
                 brain_led_ambient, set_ambient_task, bg_ack, relayVars, fb_last, events,
                 flow, ledm, cap, tw, sess, scroll, rx, hist>>

DisplayTickRaisesUncaught ==
    /\ display_pc = "in_executor"
    /\ faults.display < MaxFaults
    /\ display_pc' = "ended"
    /\ faults' = [faults EXCEPT !.display = @ + 1]
    /\ UNCHANGED <<tap, conn, exceptLoops>>

\* _display_tick raises on the worker thread; run_in_executor hands the
\* exception to the loop, which prints it and sleeps (1699-1706).
DisplayTickRaises ==
    /\ display_pc = "in_executor"
    /\ faults.display < MaxFaults
    /\ display_pc' = "sleep"
    /\ faults' = [faults EXCEPT !.display = @ + 1]
    /\ UNCHANGED <<tap, conn, exceptLoops>>

\* _check_tap (84-99): reading the accelerometer raises; nothing is stored,
\* the result is False and the loop sleeps one poll interval (169).
LoopPollRaises ==
    /\ tap.loop_pc = "poll"
    /\ tap.loop_wake = tap.now
    /\ tap.accel
    /\ faults.tap < MaxFaults
    /\ tap' = [tap EXCEPT !.spike = 0, !.loop_wake = tap.now + POLL_INTERVAL]
    /\ faults' = [faults EXCEPT !.tap = @ + 1]
    /\ UNCHANGED <<display_pc, conn, exceptLoops>>

\* Time passes to the next poll with nobody touching the case.
AdvanceAtRest ==
    /\ Len(tap.phys) = 0
    /\ TapIdle
    /\ NextWake <= MaxTime
    /\ tap' = [tap EXCEPT !.now = NextWake]
    /\ UNCHANGED exceptTap

NextLoops ==
    \/ DisplayCheck
    \/ \E refresh \in BOOLEAN : DisplayTick(refresh)
    \/ DisplayTickRaises
    \/ LoopPoll
    \/ LoopPollRaises
    \/ AdvanceAtRest
    \/ NextConn

\* The display loop, the tap polling loop and the relay connection loop of a
\* device left alone, with the exceptions each of them can meet.
SpecLoops == InitConn /\ [][NextLoops]_vars

(***************************************************************************)
(* One request through _typewriter and the hold of expand_frame            *)
(* (leeloo_brain.py 613-624, 644-738).                                     *)
(***************************************************************************)
LineAdvanceFull(line_text) == line_height

\* What a line adds to the height (663-667, 683-685, 723).
LineAdvance(line_text) == IF line_text = "" THEN line_height \div 2 ELSE line_height

\* total_content_height (662-667).
RECURSIVE TotalContentHeight(_)
TotalContentHeight(content) ==
    IF content = <<>> THEN 0
    ELSE LineAdvance(Head(content)) + TotalContentHeight(Tail(content))

\* The dictionary returned on overflow (730-737), without the image.
OverflowResult(total) ==
    [total_height |-> total, visible_height |-> visible_height,
     content_x |-> 7 + 10, content_y |-> content_y]

\* expand_frame 615: _typewriter is called; 648-679 run up to the first line,
\* or to the return of None when the framebuffer cannot be opened.
TwStart(content, fb_ok) ==
    /\ LET total == TotalContentHeight(content)
           t == [tw EXCEPT !.content = content, !.fb_ok = fb_ok,
                           !.total_content_height = total,
                           !.has_overflow = total > visible_height,
                           !.idx = 1, !.y_pos = content_y]
       IN  tw' = IF fb_ok THEN [t EXCEPT !.pc = "typing"]
                 ELSE [t EXCEPT !.pc = "hold", !.returned = "None"]
    /\ UNCHANGED exceptTw

\* A request with any content, with or without a framebuffer.
TwCall ==
    /\ tw.pc = "idle"
    /\ \E content \in Contents, fb_ok \in BOOLEAN : TwStart(content, fb_ok)

\* 682-727: one line of the content; it is typed on the display when it
\* ends above max_y.
TwLine ==
    /\ tw.pc = "typing"
    /\ tw.idx <= Len(tw.content)
    /\ LET line_text == tw.content[tw.idx]
           line_is_visible == tw.y_pos + line_height <= max_y
       IN  tw' = [tw EXCEPT !.idx = @ + 1,
                            !.y_pos = @ + LineAdvance(line_text),
                            !.typed = IF line_text # "" /\ line_is_visible THEN @ + 1 ELSE @]
    /\ UNCHANGED exceptTw

\* 728-738 and expand_frame 617-624: the result is returned; a result that
\* is not None starts _scroll_content, None the plain hold.
TwReturn ==
    /\ tw.pc = "typing"
    /\ tw.idx > Len(tw.content)
    /\ tw' = IF tw.has_overflow
             THEN [tw EXCEPT !.pc = "scroll", !.scrolls = @ + 1, !.returned = "overflow",
                             !.overflow = OverflowResult(tw.total_content_height)]
             ELSE [tw EXCEPT !.pc = "hold", !.returned = "None"]
    /\ UNCHANGED exceptTw

\* 626-629: the hold or the scroll is over and the frame collapses.
TwCollapse ==
    /\ tw.pc \in {"scroll", "hold"}
    /\ tw' = [tw EXCEPT !.pc = "done"]
    /\ UNCHANGED exceptTw

NextTypewriter ==
    \/ TwCall
    \/ TwLine
    \/ TwReturn
    \/ TwCollapse

\* Every content of up to MaxLines lines through the typewriter.
SpecTypewriter == InitTap /\ [][NextTypewriter]_vars

(***************************************************************************)
(* _scroll_content (leeloo_brain.py 740-796), called by expand_frame with  *)
(* the overflow result of _typewriter.                                     *)
(***************************************************************************)
MaxScrollLines == 16

\* The heights of overflowing contents of up to MaxScrollLines lines, a of
\* them lines of text and the others empty.
ScrollHeights ==
    {h \in {line_height * a + (line_height \div 2) * b :
                 a \in 0..MaxScrollLines, b \in 0..MaxScrollLines} :
        /\ h > visible_height
        /\ h <= line_height * MaxScrollLines}

scroll_speed == 1

\* Lines 743-764: max_scroll, the early returns, the open of the framebuffer.
ScrollCall(total, fb_ok) ==
    LET ms == OverflowResult(total).total_height - OverflowResult(total).visible_height
    IN  /\ scroll' = [pc |-> IF ms <= 0 \/ ~fb_ok THEN "sleep" ELSE "loop",
                      fb_ok |-> fb_ok, total_height |-> total, max_scroll |-> ms,
                      scroll_offset |-> 0, drawn |-> -1, frames |-> 0]
        /\ UNCHANGED exceptScroll

ScrollStart ==
    /\ scroll.pc \in {"idle", "done"}
    /\ \E total \in ScrollHeights, fb_ok \in BOOLEAN : ScrollCall(total, fb_ok)

\* The loop test of line 767.
ScrollLoopTest == scroll.scroll_offset < scroll.max_scroll

\* One pass of the loop (767-788): the crop at scroll_offset is written to
\* the framebuffer, the offset advances, the frame delay passes.
ScrollTick ==
    /\ scroll.pc = "loop"
    /\ ScrollLoopTest
    /\ scroll' = [scroll EXCEPT !.drawn = scroll.scroll_offset,
                                !.frames = @ + 1,
                                !.scroll_offset = @ + scroll_speed]
    /\ UNCHANGED exceptScroll

\* The loop ends and the hold at the bottom begins (790-793).
ScrollHold ==
    /\ scroll.pc = "loop"
    /\ ~ScrollLoopTest
    /\ scroll' = [scroll EXCEPT !.pc = "hold"]
    /\ UNCHANGED exceptScroll

\* The hold, or the sleep of an early return, ends; the framebuffer is
\* closed (795-796).
ScrollReturn ==
    /\ scroll.pc \in {"hold", "sleep"}
    /\ scroll' = [scroll EXCEPT !.pc = "done"]
    /\ UNCHANGED exceptScroll

NextScroll ==
    \/ ScrollStart
    \/ ScrollTick
    \/ ScrollHold
    \/ ScrollReturn

\* Calls of _scroll_content for every overflowing height, one after another.
SpecScroll == InitTap /\ [][NextScroll]_vars

(***************************************************************************)
(* The transcript of record_and_transcribe (leeloo_voice.py 144-219):      *)
(* receive_results collects the fragments Deepgram sends, lines 203-207    *)
(* combine them.                                                           *)
(***************************************************************************)
MaxMessages == 3

Chars == {"a", "b", " "}

\* Transcript texts of up to two characters, blank ones included.
Texts == {<<>>} \cup {<<c>> : c \in Chars} \cup {<<c, d>> : c \in Chars, d \in Chars}

\* What the server sends: results with a transcript, final or interim, and
\* messages of another type.
Messages ==
    {[type |-> "Metadata", is_final |-> FALSE, text |-> <<>>]}
        \cup {[type |-> "Results", is_final |-> f, text |-> t] : f \in BOOLEAN, t \in Texts}

\* " ".join(parts)
RECURSIVE JoinSp(_)
JoinSp(parts) ==
    IF parts = <<>> THEN <<>>
    ELSE IF Len(parts) = 1 THEN parts[1]
    ELSE parts[1] \o <<" ">> \o JoinSp(Tail(parts))

\* str.strip()
RECURSIVE LStrip(_)
LStrip(t) == IF t # <<>> /\ Head(t) = " " THEN LStrip(Tail(t)) ELSE t

RECURSIVE RStrip(_)
RStrip(t) == IF t # <<>> /\ t[Len(t)] = " " THEN RStrip(SubSeq(t, 1, Len(t) - 1)) ELSE t

Strip(t) == RStrip(LStrip(t))

RxTranscriptWithoutFallback(finals, interim) == Strip(JoinSp(finals))

\* Lines 203-207: the final fragments joined, or the interim one.
RxTranscript(finals, interim) ==
    LET transcript == Strip(JoinSp(finals))
    IN  IF transcript = <<>> /\ interim # <<>> THEN Strip(interim) ELSE transcript

\* 107-175: _recording is set, the connection is open, arecord runs and the
\* receive task is created.
RxBegin ==
    /\ rx.pc \in {"idle", "returned"}
    /\ rx' = [RxInit EXCEPT !.pc = "receiving"]
    /\ UNCHANGED exceptRx

\* One pass of "async for msg in ws" (152-168).
RxMessage(msg) ==
    /\ rx.pc = "receiving"
    /\ Len(rx.seen) < MaxMessages
    /\ rx' = [rx EXCEPT
                !.seen = Append(@, msg),
                !.final_transcript =
                    IF msg.type = "Results" /\ msg.is_final /\ msg.text # <<>>
                    THEN Append(@, msg.text) ELSE @,
                !.interim_transcript =
                    IF msg.type = "Results" /\ ~(msg.is_final /\ msg.text # <<>>)
                       /\ msg.text # <<>>
                    THEN msg.text ELSE @]
    /\ UNCHANGED exceptRx

\* receive_results ends: the connection is closed, a message cannot be
\* decoded (171-172), or the 2 s of line 194 are over and the task is
\* cancelled (196-200).
RxEnd ==
    /\ rx.pc = "receiving"
    /\ rx' = [rx EXCEPT !.pc = "drained"]
    /\ UNCHANGED exceptRx

\* 203-219: the transcript is combined and returned; when the cleanup of
\* 183-201 raised, lines 203-207 are skipped and "" is returned.
RxReturn(raised) ==
    /\ rx.pc = "drained"
    /\ rx' = [rx EXCEPT !.pc = "returned",
                        !.failed = raised,
                        !.result = IF raised THEN <<>>
                                   ELSE RxTranscript(rx.final_transcript,
                                                     rx.interim_transcript)]
    /\ UNCHANGED exceptRx

NextTranscript ==
    \/ RxBegin
    \/ \E msg \in Messages : RxMessage(msg)
    \/ RxEnd
    \/ \E raised \in BOOLEAN : RxReturn(raised)

\* One call after another, with every sequence of up to MaxMessages messages.
SpecTranscript == InitTap /\ [][NextTranscript]_vars

(***************************************************************************)
(* The messages of the intent context (leeloo_messages.py 58-120,          *)
(* leeloo_brain.py 254-269, leeloo_intent.py 216-224).  A message is its   *)
(* timestamp; add_message stamps it with the clock.                        *)
(***************************************************************************)
MESSAGE_TTL == 86400

MaxStored == 7

HalfDay == 43200

MaxNow == Now0 + 2 * HalfDay + MaxStored

\* _cleanup_old (58-65): the messages younger than MESSAGE_TTL.
CleanupOld(messages, now) ==
    LET Young(m) == now - m.timestamp < MESSAGE_TTL IN SelectSeq(messages, Young)

\* sorted(..., key=timestamp, reverse=True), a stable sort: m goes behind
\* the messages that are as new or newer.
RECURSIVE InsertNewestFirst(_, _)
InsertNewestFirst(m, sorted) ==
    IF sorted = <<>> THEN <<m>>
    ELSE IF Head(sorted).timestamp >= m.timestamp
         THEN <<Head(sorted)>> \o InsertNewestFirst(m, Tail(sorted))
         ELSE <<m>> \o sorted

RECURSIVE SortedNewestFirst(_)
SortedNewestFirst(messages) ==
    IF messages = <<>> THEN <<>>
    ELSE InsertNewestFirst(messages[Len(messages)],
                           SortedNewestFirst(SubSeq(messages, 1, Len(messages) - 1)))

\* get_history_24h (116-120) on the cleaned list.
History24h(messages) == SortedNewestFirst(messages)

\* build_context, "recent = messages[-5:]" (218).
Recent(messages) ==
    SubSeq(messages, IF Len(messages) > 5 THEN Len(messages) - 4 ELSE 1, Len(messages))

\* add_message (71-87) from on_message of the brain (290): the message is
\* stamped with time.time(); the call takes time.
AddMessage ==
    /\ Len(hist.messages) < MaxStored
    /\ hist.now < MaxNow
    /\ hist' = [hist EXCEPT !.messages = Append(@, [timestamp |-> hist.now]),
                            !.now = @ + 1,
                            !.fresh = FALSE]
    /\ UNCHANGED exceptHist

\* Half a day goes by.
TimePasses ==
    /\ hist.now + HalfDay <= MaxNow
    /\ hist' = [hist EXCEPT !.now = @ + HalfDay, !.fresh = FALSE]
    /\ UNCHANGED exceptHist

\* _get_intent_context (254-269): get_history_24h drops the old messages
\* and returns the rest newest first; build_context lists Recent of them.
GetIntentContext ==
    /\ ~hist.fresh
    /\ LET kept == CleanupOld(hist.messages, hist.now)
       IN  hist' = [hist EXCEPT !.messages = kept,
                                !.context = Recent(History24h(kept)),
                                !.fresh = TRUE]
    /\ UNCHANGED exceptHist

NextContext == AddMessage \/ TimePasses \/ GetIntentContext

\* Messages arriving, time passing and the context being built, in any order.
SpecContext == InitTap /\ [][NextContext]_vars

(***************************************************************************)
(* _on_tap_detected and _resolve_taps on their own (leeloo_tap.py          *)
(* 101-147): the detection is called at any instant, without the poll loop *)
(* and its settle time in between.                                         *)
(***************************************************************************)
\* _on_tap_detected is called at the current instant.
DirectTap ==
    /\ Len(tap.phys) < MaxPhys
    /\ tap' = [OnTapDetected(tap) EXCEPT !.phys = Append(@, [t |-> tap.now, s |-> 0])]
    /\ UNCHANGED exceptTap

\* d ticks pass; the resolution task runs first when it is runnable, and its
\* sleep does not end later than it was set to.
Pass(d) ==
    /\ tap.pending_task # "created"
    /\ tap.pending_task = "sleeping" => tap.now + d <= tap.pending_wake
    /\ tap.now + d <= MaxTime
    /\ tap' = [tap EXCEPT !.now = @ + d]
    /\ UNCHANGED exceptTap

NextResolve ==
    \/ DirectTap
    \/ ResolveStart
    \/ ResolveWake
    \/ \E d \in TapGaps : Pass(d)

\* The detection and the resolution of tap sequences, driven directly.
SpecResolve == InitTap /\ [][NextResolve]_vars

(***************************************************************************)
(* A raw tap during a recording, with the time the cancelled               *)
(* record_and_transcribe call takes to unwind (leeloo_voice.py 183-201,    *)
(* 215-216) and the single_tap the same raw tap resolves to 0.5 s later    *)
(* (leeloo_tap.py 101-147).                                                *)
(***************************************************************************)
\* _on_tap_detected accepts a raw tap while the handler is suspended in
\* record_and_transcribe: the task is cancelled (leeloo_tap.py 139-141),
\* CancelledError is raised in _stream_audio, and the call enters its finally
\* clause (CloseStream, kill of arecord, up to 2 s for the last results, close
\* of the connection).  The raw tap is counted and its resolution started.
TapCancelsCapture ==
    /\ voice_pc \in {"recording", "vo_recording"}
    /\ sess = SessInit
    /\ voice_pc' = "idle"
    /\ flow' = Rec([flow EXCEPT !.failed = TRUE, !.cancelled = TRUE])
    /\ sess' = [sess EXCEPT !.unwinding = TRUE, !.resolving = TRUE]
    /\ UNCHANGED <<uiVars, taskVars, voice_intent, cfg, spotify_playing, dispatch, led,
                   ambientVars, bg_ack, relayVars, display_pc, fb_last, events, exceptSess>>

\* The finally clauses of the cancelled call have run: _recording is set to
\* False (line 216) and CancelledError leaves record_and_transcribe.
CaptureUnwound ==
    /\ sess.unwinding
    /\ sess' = [sess EXCEPT !.unwinding = FALSE]
    /\ UNCHANGED <<brainVars, exceptSess>>

\* The resolution of the cancelling raw tap emits single_tap and
\* _handle_single_tap runs up to its first suspension (813-828).
ResolvedSingleTap ==
    /\ sess.resolving
    /\ voice_pc = "idle"
    /\ IF ui_state \in {"EXPANDED", "EXPANDING"}
       THEN /\ task' = IF ExpandTaskLive THEN CancelTask(task, expand_task) ELSE task
            /\ sess' = [sess EXCEPT !.resolving = FALSE]
            /\ UNCHANGED <<voice_pc, led, flow>>
       ELSE IF ui_state \in {"LISTENING", "PROCESSING"}
       THEN /\ sess' = [sess EXCEPT !.resolving = FALSE]
            /\ UNCHANGED <<task, voice_pc, led, flow>>
       ELSE /\ led' = AckBegin(led)
            /\ voice_pc' = "ack"
            /\ flow' = Rec([NoFlow EXCEPT !.acks = 1])
            /\ sess' = [sess EXCEPT !.resolving = FALSE, !.restarted = TRUE]
            /\ UNCHANGED task
    /\ UNCHANGED <<uiVars, expand_task, ready, last_end, voice_intent, cfg, spotify_playing,
                   dispatch, ambientVars, bg_ack, relayVars, display_pc, fb_last, events,
                   exceptSess>>

\* A single tap at any moment at which no created task is still waiting for
\* its first step (a created task starts within the same pass of the loop).
TapAnyTime == ready = <<>> /\ TapStartsFlow

NextSessions ==
    \/ NextScenario
    \/ TapAnyTime
    \/ TapCancelsCapture
    \/ CaptureUnwound
    \/ ResolvedSingleTap

\* Single-tap flows, one of which a raw tap cancels during its recording.
SpecSessions == Init /\ [][NextSessions]_vars

NextCancel ==
    \/ NextScenario
    \/ TapCancelsPending

\* Single-tap flows started at rest, each of which a further raw tap may
\* cancel while its handler is running; the flow history is recorded.
SpecCancel == InitWith(TRUE) /\ [][NextCancel]_vars

TypeOK ==
    /\ ui_state \in UIState
    /\ expanded_frame \in FrameType \cup {"None"}
    /\ message_view_active \in BOOLEAN
    /\ expand_task \in TaskIds \cup {0}
    /\ \A t \in TaskIds : task[t].pc \in TaskPcs
    /\ events \in 0..MaxEvents
    /\ dispatch.pc \in {"idle", "ack"}
    /\ dispatch.kind \in {"none", "double_tap", "triple_tap"}
    /\ dispatch.n \in 0..MaxDispatch
    /\ tap.tap_count \in 0..MaxPhys
    /\ tap.loop_pc \in {"poll", "settle", "drain"}
    /\ tap.pending_task \in {"none", "created", "sleeping"}

(***************************************************************************)
(* Properties.                                                             *)
(***************************************************************************)
InFlight == {t \in TaskIds : task[t].pc \in InFlightPcs}

\* C1: at most one expand_frame cycle (expand animation, typewriter,
\* hold/scroll, collapse) is active at any time.
C1_AtMostOneCycle == Cardinality(InFlight) <= 1

\* C2: when a request sets UIState to Expanding and begins its expand
\* animation, every earlier request has been torn down: no other expand_frame
\* cycle is in flight at that step.
C2_TeardownBeforeStart ==
    [][\A t \in TaskIds :
          (task[t].pc \notin InFlightPcs /\ task'[t].pc = "expand")
              => \A u \in TaskIds \ {t} : task[u].pc \notin InFlightPcs]_vars

AllowedEdges ==
    {<<"NORMAL", "EXPANDING">>, <<"EXPANDING", "EXPANDED">>, <<"EXPANDED", "COLLAPSING">>,
     <<"COLLAPSING", "NORMAL">>, <<"NORMAL", "LISTENING">>, <<"LISTENING", "PROCESSING">>,
     <<"PROCESSING", "NORMAL">>}

\* C3: every change of UIState is one of the listed edges or a reset of any
\* state to Normal.
C3_OnlyAllowedEdges ==
    [][ui_state' # ui_state =>
          (<<ui_state, ui_state'>> \in AllowedEdges \/ ui_state' = "NORMAL")]_vars

\* C4: every expand_frame run that has set UIState to Expanding ends (by
\* completion, exception or cancellation at any of its awaits) with UIState
\* Normal, expanded_frame and message_view_active cleared, and the idle screen
\* rendered.
C4_FinallyCleansUp ==
    [][\A t \in TaskIds :
          (task[t].pc \in InFlightPcs /\ task'[t].pc = "free")
              => /\ ui_state' = "NORMAL"
                 /\ expanded_frame' = "None"
                 /\ message_view_active' = FALSE
                 /\ fb_last' = 0]_vars

\* A cancelled run has just ended and left the cleaned-up state.
C4_Witness ==
    /\ last_end = "cancelled"
    /\ ui_state = "NORMAL"
    /\ expanded_frame = "None"
    /\ fb_last = 0

\* The display tick on the worker thread reaches _render_normal.
TickRenders ==
    /\ display_pc = "in_executor"
    /\ display_pc' = "sleep"
    /\ brain_led_ambient' = brain_led_ambient

\* C5: the idle-screen render of the display loop writes the framebuffer only
\* while UIState is Normal and no expansion is Expanding, Expanded or
\* Collapsing.
C5_TickRendersOnlyInNormal ==
    [][TickRenders => (ui_state = "NORMAL" /\ InFlight = {})]_vars

\* A single tap handled by the dismiss branch that requests a cancellation.
TapDismissed ==
    /\ voice_pc = "idle"
    /\ ui_state \in {"EXPANDED", "EXPANDING"}
    /\ UNCHANGED <<ui_state, expand_task, ready, last_end, voice_pc, led, events>>
    /\ \E t \in TaskIds : ~task[t].cancel /\ task'[t].cancel

\* C6: a single tap while UIState is Expanding or Expanded cancels the
\* expansion in flight, so that no expansion is left running without a
\* pending cancellation, and the tap starts no voice flow and no LED ack.
C6_TapDismissCancelsAll ==
    [][TapDismissed =>
          /\ \A t \in TaskIds : task[t].pc \in InFlightPcs => task'[t].cancel
          /\ voice_pc' = "idle"
          /\ led' = led]_vars

\* C7: the voice flow ends in Normal: once the tap handler has returned (or
\* was cancelled) and no expansion is pending or running, UIState is not
\* left at Listening or Processing.
C7_VoiceFlowEndsInNormal ==
    (voice_pc = "idle" /\ \A t \in TaskIds : task[t].pc = "free")
        => ui_state \notin {"LISTENING", "PROCESSING"}

EndToEndOrder == <<"LISTENING", "PROCESSING", "EXPANDING", "EXPANDED", "COLLAPSING", "NORMAL">>

IsPrefix(s, t) == Len(s) =< Len(t) /\ \A i \in 1..Len(s) : s[i] = t[i]

\* The recorded flow had a non-empty transcript, submitted its request and
\* met no failure.
FlowSubmitted ==
    /\ flow.recording
    /\ cfg.voice /\ cfg.intent_router
    /\ flow.transcript = "text"
    /\ flow.submitted = 1
    /\ ~flow.failed

\* C8: from Normal with voice and intent routing enabled, a single tap makes
\* UIState Listening, then (non-empty transcript, intent submitting a
\* request) Processing, Expanding, Expanded, Collapsing and Normal in that
\* order with no other value in between.
C8_EndToEndOrder ==
    FlowSubmitted =>
        /\ IsPrefix(flow.trace, EndToEndOrder)
        /\ Len(flow.trace) >= 2
        /\ AtRest => flow.trace = EndToEndOrder

\* The whole sequence was observed and the device is at rest again.
C8_Witness == FlowSubmitted /\ AtRest /\ flow.trace = EndToEndOrder

\* The recorded single-tap voice flow has brought UIState back to Normal.
FlowBackToNormal ==
    /\ flow.recording
    /\ cfg.voice
    /\ Len(flow.trace) >= 2
    /\ flow.trace[Len(flow.trace)] = "NORMAL"
    /\ ui_state = "NORMAL"

\* C9: in the single-tap voice flow the LED manager receives exactly one ack
\* before UIState becomes Listening, and when UIState has returned to Normal
\* the LEDs are under the ambient breathe (ambient task running, no
\* transient animation active).
C9_AckOnceAndAmbientRestored ==
    /\ (flow.recording /\ flow.acks_at_listen # -1) => flow.acks_at_listen = 1
    /\ FlowBackToNormal =>
          /\ led.ambient_task
          /\ led.animation_task = "none"
          /\ led.current_animation = "none"

\* C10: on an empty transcript the error cue is played, UIState is Normal, the
\* classifier is not called and no request or network command is submitted.
C10_EmptyTranscript ==
    (flow.recording /\ flow.transcript = "empty" /\ voice_pc = "idle")
        => /\ flow.err_cue
           /\ ui_state = "NORMAL"
           /\ ~flow.routed
           /\ flow.submitted = 0
           /\ flow.net_cmds = 0

\* A step of the inbound nudge handler: an external event that touches the
\* LEDs and none of the tap handler, the music lookup, the background ack
\* or the music source.
NudgeEvent ==
    /\ events' = events + 1
    /\ led' # led
    /\ UNCHANGED <<voice_pc, music_lookup, bg_ack, spotify_playing>>

\* C11: an inbound nudge received while UIState is Normal starts the cyan
\* LED nudge cue and leaves UIState, _expand_task, expanded_frame and
\* message_view_active unchanged; no expand task is created.
C11_NudgeOnlyLed ==
    [][(NudgeEvent /\ ui_state = "NORMAL") =>
          /\ UNCHANGED <<ui_state, expand_task, expanded_frame, message_view_active,
                         task, ready>>
          /\ led'.current_animation = "nudge"
          /\ led'.animation_task = "nudge"
          /\ AnimationColor(led'.current_animation) = "CYAN"]_vars

\* The nudge cue is running after a single inbound nudge in Normal.
C11_Witness ==
    /\ events = 1
    /\ ui_state = "NORMAL"
    /\ voice_pc = "idle"
    /\ expand_task = 0
    /\ led.animation_task = "nudge"
    /\ led.current_animation = "nudge"

\* A messages panel is the active expansion: an expand_frame cycle for the
\* MESSAGES frame is in flight.
MessagesPanelActive == \E t \in InFlight : task[t].frame = "MESSAGES"

\* A double or triple tap reaches its handler.
DispatchStep == dispatch'.n = dispatch.n + 1

\* The relay command the dispatch table gives for a tap.
DispatchTable(panel, kind) ==
    CASE kind = "double_tap" /\ panel -> "reaction:love"
      [] kind = "double_tap" /\ ~panel -> "nudge"
      [] kind = "triple_tap" /\ panel -> "reaction:fire"
      [] OTHER -> "nothing"

\* What the handler of the tap just dispatched has committed to: the nudge it
\* sent, the reaction it sends after its ack, or nothing.
Committed ==
    IF dispatch'.pc = "ack"
    THEN IF dispatch'.kind = "double_tap" THEN "reaction:love" ELSE "reaction:fire"
    ELSE IF dispatch'.sent # dispatch.sent
         THEN dispatch'.sent[Len(dispatch'.sent)]
         ELSE "nothing"

\* C12: tap dispatch is a function of (a messages panel is the active
\* expansion, tap kind): double_tap gives a 'love' reaction with a messages
\* panel active and otherwise a nudge with the LED nudge cue; triple_tap
\* gives a 'fire' reaction with a messages panel active and otherwise
\* nothing; neither changes UIState nor submits a request, and a reaction
\* that is sent is the one the tap committed to.
C12_TapDispatch ==
    [][/\ DispatchStep =>
             /\ Committed = DispatchTable(MessagesPanelActive, dispatch'.kind)
             /\ Committed = "nudge" => led'.animation_task = "nudge"
             /\ UNCHANGED <<ui_state, expanded_frame, message_view_active, taskVars>>
       /\ (~DispatchStep /\ dispatch'.sent # dispatch.sent) =>
             /\ dispatch.pc = "ack"
             /\ dispatch'.sent = Append(dispatch.sent,
                                        DispatchTable(TRUE, dispatch.kind))
             /\ UNCHANGED <<ui_state, expanded_frame, message_view_active, taskVars>>]_vars

\* Physical tap i is strong enough to be a hit when a reading catches it.
Strong(i) == tap.phys[i].s > TAP_THRESHOLD

\* The tap manager has come to rest after the last tap: every wait window
\* has passed, no resolution is pending and the loop is polling.
Resolved ==
    /\ Len(tap.phys) > 0
    /\ tap.pending_task = "none"
    /\ tap.loop_pc = "poll"
    /\ tap.now >= tap.phys[Len(tap.phys)].t + TRIPLE_TAP_WINDOW + SETTLE_TIME

\* C13: three taps within the triple-tap window resolve to exactly one
\* triple_tap, with no single_tap or double_tap, and the tap counter is
\* back at zero.
C13_TripleTap ==
    (/\ tap.accel
     /\ Len(tap.phys) = 3
     /\ \A i \in 1..3 : Strong(i)
     /\ tap.phys[3].t - tap.phys[1].t <= TRIPLE_TAP_WINDOW
     /\ Resolved)
    => (tap.emitted = <<"triple_tap">> /\ tap.tap_count = 0)

\* C14: two taps separated by less than the double-tap window give exactly
\* one double_tap event and no single_tap event.
C14_DoubleTap ==
    (/\ tap.accel
     /\ Len(tap.phys) = 2
     /\ \A i \in 1..2 : Strong(i)
     /\ tap.phys[2].t - tap.phys[1].t < DOUBLE_TAP_WINDOW
     /\ Resolved)
    => tap.emitted = <<"double_tap">>

\* A pass of the poll loop outside a settle, with the accelerometer present.
PollStep ==
    /\ tap.accel
    /\ tap.loop_pc = "poll"
    /\ tap.loop_wake = tap.now
    /\ tap'.loop_wake # tap.loop_wake

\* C15: a reading whose delta is below the tap threshold produces no raw tap
\* and no tap event; a reading whose delta is at or above the threshold,
\* taken after the settle period of the previous accepted tap, produces
\* exactly one raw tap: the tap counter goes up by exactly one.
C15_ThresholdAndSettle ==
    [][PollStep =>
          /\ tap'.last_delta < TAP_THRESHOLD =>
                /\ tap'.raw = tap.raw
                /\ tap'.tap_count = tap.tap_count
                /\ tap'.emitted = tap.emitted
                /\ tap'.pending_task = tap.pending_task
          /\ tap'.last_delta >= TAP_THRESHOLD =>
                /\ tap'.raw = tap.raw + 1
                /\ tap'.tap_count = tap.tap_count + 1]_vars

\* The transient animations that own the LEDs: running animation tasks, an
\* ack() in its flash, the solid listening colour.
Owners ==
    TransientsRunning(ledm.m)
        \cup (IF ledm.acks = 1 THEN {"ack"} ELSE {})
        \cup (IF ledm.m.current_animation = "listening" THEN {"listening"} ELSE {})

\* C16: while a transient LED animation owns the LEDs, no ambient breathing
\* task and no other transient animation is running, whatever the order in
\* which the LED operations were issued.
C16_TransientExclusive ==
    Owners # {} => (~BreatheRunning(ledm.m) /\ Cardinality(Owners) = 1)

\* A set_ambient call made while the ambient breathing task is running.
SetAmbientWhileBreathing ==
    /\ ledm'.sets # <<>>
    /\ ledm'.sets[Len(ledm'.sets)].breathing

\* C17: set_ambient called while the breathing task is running only updates
\* the ambient state: the task is neither cancelled nor restarted, OFF is
\* not written, and the number of breathing tasks does not change (one
\* stays one).
C17_AmbientChangeInPlace ==
    [][SetAmbientWhileBreathing =>
          /\ ledm'.m = [ledm.m EXCEPT !.ambient_state = ledm'.sets[Len(ledm'.sets)].state]
          /\ ledm'.fx = NoFx
          /\ ledm'.pix = ledm.pix
          /\ ledm'.m.ambient_task
          /\ ledm'.m.orphans = ledm.m.orphans]_vars

\* set_ambient("idle") then set_ambient("playing"), both with the one
\* breathing task running.
C17_Witness ==
    /\ ledm.sets = <<[state |-> "idle", breathing |-> TRUE],
                     [state |-> "playing", breathing |-> TRUE]>>
    /\ ledm.m.ambient_state = "playing"
    /\ ledm.m.ambient_task
    /\ ledm.m.orphans = 0
    /\ ledm.pix = "ambient"

\* No transient animation is active and no _run_animation is unfinished.
LedQuiet ==
    /\ Owners = {}
    /\ ledm.m.current_animation = "none"
    /\ \A n \in WrapNames : ledm.m.wrap[n] = "none"

\* C18: once the transient animations have completed or been cancelled, the
\* ambient breathing runs if and only if an ambient state is set, and with
\* no ambient state the LEDs are fully off.
C18_AmbientResumes ==
    LedQuiet =>
        /\ ledm.m.ambient_state # "none" <=> BreatheRunning(ledm.m)
        /\ ledm.m.ambient_state = "none" => ledm.pix = "OFF"

\* A transient colour that nothing will end: the solid listening colour or
\* the endless processing breathe.
EndlessTransient ==
    \/ led.current_animation = "listening"
    \/ led.animation_task = "processing"

\* C19: after the handler of a voice flow was cancelled (in its listening or
\* processing phase or later), the LEDs are off or under the ambient
\* breathing: no handler is left and no endless transient colour is shown.
C19_CancelLeavesLedsSafe ==
    (flow.cancelled /\ voice_pc = "idle") => ~EndlessTransient

\* The capture has been fed loud, full chunks only, and nothing failed.
LoudStream == cap.loud_only /\ cap.full_only /\ cap.clean

\* C20: given a stream of chunks whose RMS stays above the silence threshold,
\* capture stops after exactly max_chunks = 150 chunks of 100 ms, that is at
\* MAX_RECORD_SECONDS: it is still reading while fewer have been counted,
\* it stops for no other reason, and no capture counts more than max_chunks.
C20_StopsAtMaxDuration ==
    /\ cap.total_chunks <= max_chunks
    /\ (cap.pc = "streaming" /\ LoudStream) => cap.total_chunks < max_chunks
    /\ (cap.pc = "stopped" /\ LoudStream) =>
           /\ cap.stop = "max"
           /\ cap.total_chunks = 150
           /\ cap.total_chunks * CHUNK_DURATION_MS = MAX_RECORD_SECONDS * 1000

C20_Witness ==
    /\ cap.pc = "stopped"
    /\ LoudStream
    /\ cap.stop = "max"
    /\ cap.total_chunks = max_chunks

\* The chunks after the grace period were loud ones followed by quiet ones,
\* all read and sent without a failure.
LoudThenQuiet == cap.pattern = "quiet" /\ cap.clean

\* The length of the loud period, in chunks, of a LoudThenQuiet stream.
LoudChunks == cap.total_chunks - grace_chunks - cap.silence_samples

\* When C21 has capture stop on a LoudThenQuiet stream, in ms.
SilenceStopTime ==
    INITIAL_GRACE_PERIOD + LoudChunks * CHUNK_DURATION_MS + SILENCE_DURATION

\* The audio captured so far, in ms.
CapturedTime == cap.total_chunks * CHUNK_DURATION_MS

\* C21 as stated: after a loud period of any length followed by silence,
\* capture stops at grace period + loud period + silence duration, within
\* one chunk.
C21_StopsAfterSilence ==
    (cap.pc = "stopped" /\ LoudThenQuiet) =>
        /\ CapturedTime >= SilenceStopTime - CHUNK_DURATION_MS
        /\ CapturedTime <= SilenceStopTime + CHUNK_DURATION_MS

\* C21 amended: the same, exactly, for every loud period that ends early
\* enough for the silence duration to elapse before the maximum duration;
\* until then capture goes on.
C21_StopsAfterSilenceWithinMax ==
    (LoudThenQuiet /\ SilenceStopTime <= MAX_RECORD_SECONDS * 1000) =>
        /\ cap.pc = "streaming" => CapturedTime < SilenceStopTime
        /\ cap.pc = "stopped" => cap.stop = "silence" /\ CapturedTime = SilenceStopTime

C21_Witness ==
    /\ cap.pc = "stopped"
    /\ LoudThenQuiet
    /\ cap.stop = "silence"
    /\ LoudChunks = 3
    /\ cap.total_chunks = 23

\* C22: when no chunk after the grace period exceeds the threshold, capture
\* stops at the no-speech timeout of 50 chunks, for that reason, and reads on
\* until then whatever the silence counter says.
C22_NoSpeechTimeout ==
    (~cap.has_heard_speech /\ cap.clean) =>
        /\ cap.pc = "streaming" => cap.total_chunks < no_speech_chunks
        /\ cap.pc = "stopped" => cap.stop = "no_speech" /\ cap.total_chunks = 50

C22_Witness ==
    /\ cap.pc = "stopped"
    /\ ~cap.has_heard_speech
    /\ cap.clean
    /\ cap.stop = "no_speech"
    /\ cap.silence_samples > silence_chunks_needed

\* record_and_transcribe has returned.
CapReturned == cap.pc = "idle" /\ cap.result # "none"

C24_RetryDelay ==
    /\ conn.pc \in {"connect", "rejoin", "create"} =>
           conn.retry_delay = Min(5 * 2^conn.failures, 60)
    /\ conn.pc = "sleep" =>
           /\ conn.waited = conn.retry_delay
           /\ conn.waited = Min(5 * 2^(conn.failures - 1), 60)
    /\ conn.pc = "session" => conn.retry_delay = 5 /\ conn.failures = 0

C24_Witness ==
    /\ conn.pc = "session"
    /\ conn.sessions = 2
    /\ conn.retry_delay = 5
    /\ conn.waited = 60

\* C25: while joined the listener and the keepalive loop both run; when
\* either has ended neither is left running (the other is cancelled), the
\* loop is in its backoff before the next attempt, and no session begins
\* while a task of an earlier session is alive.
C25_SessionLoops ==
    /\ conn.pc = "session" => conn.listen = "running" /\ conn.keepalive = "running"
    /\ conn.pc # "session" => conn.listen # "running" /\ conn.keepalive # "running"
    /\ (conn.listen = "cancelled" \/ conn.keepalive = "cancelled") => conn.pc = "sleep"
    /\ ~conn.overlap

C25_Witness ==
    /\ conn.pc = "session"
    /\ conn.sessions = 2
    /\ conn.listen = "running"
    /\ ~conn.overlap

\* The loop that caught an exception in this step.
DisplayFault == faults'.display # faults.display
TapFault == faults'.tap # faults.tap
RelayFault == faults'.relay # faults.relay

\* C27: an exception in a display tick, in an accelerometer read or in a
\* relay connect, join or create ends none of the three loops: the display
\* loop and the tap loop are at the sleep before their next pass, and the
\* relay loop is in a backoff of at most 60 s before its next attempt.
C27_LoopsSurviveExceptions ==
    [][/\ DisplayFault => display_pc' = "sleep"
       /\ TapFault => tap'.loop_pc = "poll" /\ tap'.loop_wake = tap.now + POLL_INTERVAL
       /\ RelayFault => conn'.pc = "sleep" /\ conn'.waited \in 5..60
       /\ display_pc' \in {"sleep", "in_executor"}
       /\ tap'.loop_pc \in {"poll", "settle", "drain"}
       /\ conn'.pc \in {"connect", "rejoin", "create", "session", "sleep"}]_vars

\* Each loop has caught an exception and is in a later pass.
C27_Witness ==
    /\ faults.display = 1
    /\ faults.tap = 1
    /\ faults.relay = 1
    /\ display_pc = "in_executor"
    /\ tap.now >= Epoch + 2 * POLL_INTERVAL
    /\ tap.loop_pc = "poll"
    /\ conn.pc = "session"

\* The rendered height of the request's content: 22 px per line with text,
\* 11 px per empty line.
RenderedHeight ==
    22 * Cardinality({i \in DOMAIN tw.content : tw.content[i] # ""})
      + 11 * Cardinality({i \in DOMAIN tw.content : tw.content[i] = ""})

\* _typewriter has returned for the request.
TwReturned == tw.returned # "pending"

\* What C26 asks of a returned request.
OverflowContract ==
    IF RenderedHeight > 259
    THEN /\ tw.returned = "overflow"
         /\ tw.overflow.total_height > tw.overflow.visible_height
         /\ tw.overflow.total_height = RenderedHeight
    ELSE tw.returned = "None" /\ tw.scrolls = 0

\* C26 as stated: whenever the rendered height exceeds the visible height
\* the typewriter returns an overflow result with total_height >
\* visible_height; when the content fits it returns no overflow and the
\* scroll step is not invoked.
C26_OverflowResult == TwReturned => OverflowContract

\* C26 amended: the same, for requests whose framebuffer could be opened;
\* and the scroll step is invoked exactly for the overflow results.
C26_OverflowResultWithFramebuffer ==
    (TwReturned /\ tw.fb_ok) =>
        /\ OverflowContract
        /\ tw.scrolls = (IF tw.returned = "overflow" THEN 1 ELSE 0)

C26_Witness ==
    /\ tw.pc = "scroll"
    /\ tw.fb_ok
    /\ tw.returned = "overflow"
    /\ tw.overflow.total_height = 264
    /\ tw.overflow.visible_height = 259
    /\ tw.typed = 11

\* A raw tap is accepted in this step.
TapAccepted == tap'.raw = tap.raw + 1

\* The resolution task takes its first step, or ends its wait, in this step.
ResolutionStarts == tap.pending_task = "created" /\ tap'.pending_task # "created"
ResolutionWakes == tap.pending_task = "sleeping" /\ tap'.pending_task = "none"

\* An event is emitted in this step with the counter at count.
EmitsFor(count) ==
    /\ Len(tap'.emitted) = Len(tap.emitted) + 1
    /\ tap'.emitted[Len(tap'.emitted)] =
           (IF count = 1 THEN "single_tap" ELSE IF count = 2 THEN "double_tap" ELSE "triple_tap")
    /\ tap'.tap_count = 0
    /\ tap'.pending_task = "none"

\* C28: an accepted raw tap is counted, drops the pending resolution and
\* creates a new one; the new resolution waits 0.5 s at a count of one and
\* 0.8 s at a count of two, and emits at once at a count of three; a
\* resolution whose wait ends emits exactly one event, of the type of the
\* count, with the counter back at zero; nothing else emits.
C28_ResolveTaps ==
    [][/\ TapAccepted =>
              /\ tap'.tap_count = tap.tap_count + 1
              /\ tap'.pending_task = "created"
              /\ tap'.emitted = tap.emitted
       /\ ResolutionStarts =>
              IF tap.tap_count >= 3 THEN EmitsFor(3)
              ELSE /\ tap'.pending_task = "sleeping"
                   /\ tap'.pending_wake = tap.now + (IF tap.tap_count = 2 THEN 80 ELSE 50)
                   /\ tap'.emitted = tap.emitted
                   /\ tap'.tap_count = tap.tap_count
       /\ ResolutionWakes => tap.now = tap.pending_wake /\ EmitsFor(tap.tap_count)
       /\ ~(ResolutionStarts \/ ResolutionWakes) => tap'.emitted = tap.emitted]_vars

\* A sequence of three accepted taps has been resolved, after the
\* resolution for two taps was waiting its 0.8 s.
C28_Witness ==
    /\ tap.emitted = <<"triple_tap">>
    /\ tap.raw = 3
    /\ tap.tap_count = 0

\* C29: once the detector has invoked the callback, a later accepted raw tap
\* does not cancel it: a handler that was running ends only by running to
\* its completion, never by a cancellation.
C29_HandlerRunsToCompletion ==
    [][(voice_pc # "idle" /\ voice_pc' = "idle") => ~flow'.cancelled]_vars

\* Number of record_and_transcribe calls that have begun and not returned.
CapturesInProgress ==
    (IF voice_pc \in {"recording", "vo_recording"} THEN 1 ELSE 0)
        + (IF sess.unwinding THEN 1 ELSE 0)

\* C30: at most one record_and_transcribe call is in progress at any time.
C30_OneCaptureAtATime == CapturesInProgress <= 1

\* C31: while a voice capture is in progress (the handler is suspended in
\* record_and_transcribe), no ambient breathing task is alive: neither the
\* one _ambient_task refers to nor one it lost.
C31_NoAmbientWhileCapturing ==
    voice_pc \in {"recording", "vo_recording"} => (~led.ambient_task /\ led.orphans = 0)

\* C32: after any sequence of LEDManager operations at most one ambient
\* breathing task is alive, and it is the one _ambient_task refers to: no
\* breathing task is alive that _ambient_task does not refer to.
C32_OneAmbientTask == ledm.m.orphans = 0

\* UIState shows an expansion in flight.
ExpansionInFlight == ui_state \in {"EXPANDING", "EXPANDED", "COLLAPSING"}

\* C33: whenever an expansion is in flight and every created task has taken
\* its first step, _expand_task refers to an unfinished task that is running
\* an expansion, and no other task is running one: cancelling _expand_task
\* cancels exactly the expansion on the display.
C33_ExpandTaskIsTheExpansion ==
    (ExpansionInFlight /\ ready = <<>>) =>
        /\ expand_task # 0
        /\ task[expand_task].pc \in InFlightPcs
        /\ \A t \in TaskIds \ {expand_task} : task[t].pc \notin InFlightPcs

\* The expand tasks that are between line 600 and the end of their finally
\* block.
TasksInFlight == {t \in TaskIds : task[t].pc \in InFlightPcs}

\* C34: message_view_active is true exactly when an expansion of the
\* MESSAGES panel is in flight, and expanded_frame is None exactly when no
\* expansion is in flight.
C34_ViewFlagsMatchExpansion ==
    /\ message_view_active <=> (\E t \in TasksInFlight : task[t].frame = "MESSAGES")
    /\ (expanded_frame = "None") <=> (TasksInFlight = {})

\* A set_ambient call made while the task of a transient animation is
\* running.
SetAmbientDuringTransient ==
    /\ ledm'.sets # <<>>
    /\ ledm.m.animation_task # "none"

\* C35: set_ambient issued while a transient animation is running only
\* records the new ambient state: the animation task, its _run_animation
\* wrapper and _current_animation are left as they were.
C35_SetAmbientKeepsTransient ==
    [][SetAmbientDuringTransient =>
          ledm'.m = [ledm.m EXCEPT !.ambient_state = ledm'.sets[Len(ledm'.sets)].state]]_vars

\* C36: while the scroll loop runs, the frames were drawn at offsets 0, 1,
\* 2, ... one pixel apart; when the final hold begins, total_height -
\* visible_height frames have been drawn and the last one shows the end of
\* the content, at offset total_height - visible_height.
C36_ScrollReachesEnd ==
    /\ scroll.pc \in {"loop", "hold"} =>
           /\ scroll.frames = scroll.scroll_offset
           /\ scroll.drawn = scroll.frames - 1
    /\ scroll.pc = "hold" =>
           /\ scroll.frames = scroll.total_height - 259
           /\ scroll.drawn = scroll.total_height - 259

IsFinalFragment(m) == m.type = "Results" /\ m.is_final /\ m.text # <<>>

IsInterimFragment(m) == m.type = "Results" /\ ~m.is_final /\ m.text # <<>>

\* The texts of the non-empty final fragments read, in arrival order, and
\* the non-empty interim ones.
FinalsSeen ==
    LET f == SelectSeq(rx.seen, IsFinalFragment) IN [i \in 1..Len(f) |-> f[i].text]

InterimsSeen ==
    LET f == SelectSeq(rx.seen, IsInterimFragment) IN [i \in 1..Len(f) |-> f[i].text]

LastInterim == IF InterimsSeen = <<>> THEN <<>> ELSE InterimsSeen[Len(InterimsSeen)]

\* C37 as stated: the transcript returned is the final fragments read, in
\* arrival order (joined by spaces); only when no final fragment arrived is
\* it the last interim fragment, and it is empty when neither arrived.
C37_Transcript ==
    rx.pc = "returned" =>
        rx.result = (IF FinalsSeen # <<>> THEN Strip(JoinSp(FinalsSeen))
                     ELSE Strip(LastInterim))

\* C37, amended: when the call ends without an exception the transcript is
\* the final fragments joined by spaces and stripped; when that is empty (no
\* final fragment, or blank ones only) it is the last interim fragment,
\* stripped; when the clean-up raised it is empty.
C37_TranscriptUnlessBlankOrFailed ==
    rx.pc = "returned" =>
        IF rx.failed THEN rx.result = <<>>
        ELSE rx.result = (IF Strip(JoinSp(FinalsSeen)) # <<>>
                          THEN Strip(JoinSp(FinalsSeen))
                          ELSE Strip(LastInterim))

\* An interim fragment and two final ones: the finals are returned in
\* their order.
C37_Witness ==
    /\ rx.pc = "returned"
    /\ ~rx.failed
    /\ Len(FinalsSeen) = 2
    /\ InterimsSeen # <<>>
    /\ rx.result = <<"b", " ", "a">>

\* C38: create_crew is called only from a pass in which connect succeeded
\* and rejoin_crew returned without a join, and only on the creator's
\* device; a device that is not the creator never calls it; a pass whose
\* join failed and that created nothing starts neither the listener nor the
\* keepalive loop and goes to the backoff.
C38_CreateOnlyByCreator ==
    [][/\ conn'.pc = "create" => (conn.pc \in {"rejoin", "create"} /\ conn.is_creator)
       /\ ~conn.is_creator => conn'.pc # "create"
       /\ (conn.pc \in {"rejoin", "create"} /\ conn'.pc \notin {"rejoin", "create", "session"}) =>
              /\ conn'.pc = "sleep"
              /\ conn'.failures = conn.failures + 1
              /\ conn'.sessions = conn.sessions
              /\ conn'.listen # "running"
              /\ conn'.keepalive # "running"
       /\ conn'.pc = "rejoin" => conn.pc \in {"connect", "rejoin"}]_vars

\* The creator's device is calling create_crew after a pass that ended in
\* the backoff.
C38_Witness ==
    /\ conn.pc = "create"
    /\ conn.is_creator
    /\ conn.waited > 0

\* The stored messages of the last 24 hours and the messages listed in the
\* context.
Last24h ==
    {hist.messages[i] : i \in {j \in 1..Len(hist.messages) :
                                   hist.now - hist.messages[j].timestamp < 86400}}

Listed == {hist.context[i] : i \in 1..Len(hist.context)}

\* C39: the context just built lists the five most recent messages of the
\* last 24 hours: messages of the last 24 hours, five of them (all when
\* there are fewer), each newer than every message left out.
C39_FiveMostRecent ==
    hist.fresh =>
        /\ Listed \subseteq Last24h
        /\ Cardinality(Listed) = Min(5, Cardinality(Last24h))
        /\ \A m \in Listed : \A x \in Last24h \ Listed : m.timestamp > x.timestamp

====
